---- MODULE Spec2Model ----
(***************************************************************************)
(* Model of the symmetry-and-geometry core of libcifpp:                    *)
(*   - SymopParser, move_symop and main of tools/symop-map-generator.cpp   *)
(*   - DistanceMap of src/Structure.cpp                                    *)
(* Texts are sequences of one-character strings.  A std::array<int,15> is  *)
(* a 15-tuple: element k of the C++ array is element k+1 of the tuple.     *)
(***************************************************************************)
EXTENDS Integers, Sequences, FiniteSets, TLC

VARIABLES
    text,       \* SymopParser: the expression handed to parse
    edits,      \* number of characters inserted into text so far
    lastIns,    \* the character inserted last ("" when none)
    presult,    \* outcome of parse: [status, op]
    symop,      \* move_symop: the primary operator
    cenop,      \* move_symop: the centering operator
    mresult,    \* move_symop: the returned operator (<<>> before the call)
    pc,         \* main: position in the program
    nread,      \* main: number of input lines read so far
    state,      \* main: State::skip / State::spacegroup
    symopnr,    \* main: symopnr
    mysymnr,    \* main: mysymnr
    cur,        \* main: SymInfoBlock cur
    symops,     \* main: vector symops
    cenops,     \* main: vector cenops
    data,       \* main: vector data
    symInfo,    \* main: map symInfo
    tmpFileSt,  \* file system: the temporary file
    destFile,   \* file system: the destination file
    reported,   \* main: the catch handler wrote the message to cerr
    exc,        \* main: the exception that was thrown ("" when none)
    exitStatus, \* process exit status (-1 while running)
    mAtoms,     \* Structure: mAtoms, a sequence of [id, loc]
    cell,       \* clipper::Cell edges <<a, b, c>>
    spacegroup, \* clipper::Spacegroup: sequence of symops [rot, trn]
    dmPlain,    \* DistanceMap built by the (Structure, atoms) constructor
    dmCrystal,  \* DistanceMap built by the (Structure, spacegroup, cell) constructor
    qres,       \* result of the last operator() call
    nres,       \* result of the last near call
    pa,         \* align_points: the point set A
    qrot,       \* the quaternion A is rotated by
    pb,         \* align_points: the rotated point set (<<>> before the rotation)
    aresult,    \* align_points: the returned quaternion
    cpc,        \* crystal constructor: position of the constructing thread
    wN,         \* crystal constructor: N, the number of worker threads
    next,       \* crystal constructor: atomic<size_t> next
    wpc,        \* position of every worker thread created so far
    wi,         \* the local i of every worker (-1 before its first next++)
    wj,         \* the local j of every worker
    lock,       \* the worker that holds mutex m (0 when free)
    bdist,      \* the map dist while the constructor runs
    fpc,        \* construct_for_dihedral_angle: position ("idle", "loop", "returned")
    fitAngle,   \* construct_for_dihedral_angle: angle
    fitEsd,     \* construct_for_dihedral_angle: esd
    fitSense,   \* the sense in which a turn about the axis p2 - p3 changes the dihedral
    fitDh,      \* construct_for_dihedral_angle: dh
    fitIter,    \* construct_for_dihedral_angle: iteration
    fitDelta,   \* construct_for_dihedral_angle: delta of the last pass
    fitQ2,      \* the rotation of the last pass, as its angle about the axis
    fitQ,       \* the accumulated rotation, as its angle about the axis
    impls,      \* every AtomImpl created so far: [mRefcount, deleted]
    handles,    \* the Atom objects: the AtomImpl mImpl points to (0: no such Atom)
    ppc,        \* Polymer::Distance: "call" or "returned"
    polymer,    \* the seq ids of the polymer's monomers, in order
    monA, monB, \* the two monomers asked for: [asymID, seqID]
    distResult, \* the value Polymer::Distance returned
    atomSites,  \* the rows of the atom_site category: [row, id]
    structAtoms,\* Structure::mAtoms of the loaded structure: [impl, id, key]
    mAtomIndex, \* Structure::mAtomIndex
    removeArg   \* the atom handed to the last removeAtom

parserVars == <<text, edits, lastIns, presult>>
moveVars   == <<symop, cenop, mresult>>
mainVars   == <<pc, nread, state, symopnr, mysymnr, cur, symops, cenops, data,
                symInfo, tmpFileSt, destFile, reported, exc, exitStatus>>
dmVars     == <<mAtoms, cell, spacegroup, dmPlain, dmCrystal, qres, nres>>
alignVars  == <<pa, qrot, pb, aresult>>
buildVars  == <<cpc, wN, next, wpc, wi, wj, lock, bdist>>
fitVars    == <<fpc, fitAngle, fitEsd, fitSense, fitDh, fitIter, fitDelta, fitQ2, fitQ>>
atomVars   == <<impls, handles>>
polyVars   == <<ppc, polymer, monA, monB, distResult>>
structVars == <<atomSites, structAtoms, mAtomIndex, removeArg>>
vars       == <<parserVars, moveVars, mainVars, dmVars, alignVars, buildVars, fitVars,
                atomVars, polyVars, structVars>>

\* what an operation of one component leaves alone in the others
ParserOnly == UNCHANGED <<moveVars, mainVars, dmVars, alignVars, buildVars, fitVars,
                          atomVars, polyVars, structVars>>
MoveOnly   == UNCHANGED <<parserVars, mainVars, dmVars, alignVars, buildVars, fitVars,
                          atomVars, polyVars, structVars>>
MainOnly   == UNCHANGED <<parserVars, moveVars, dmVars, alignVars, buildVars, fitVars,
                          atomVars, polyVars, structVars>>
DMOnly     == UNCHANGED <<parserVars, moveVars, mainVars, alignVars, buildVars, fitVars,
                          atomVars, polyVars, structVars>>
AlignOnly  == UNCHANGED <<parserVars, moveVars, mainVars, dmVars, buildVars, fitVars,
                          atomVars, polyVars, structVars>>
BuildOnly  == UNCHANGED <<parserVars, moveVars, mainVars, alignVars, fitVars, atomVars, polyVars,
                          structVars,
                          mAtoms, cell, spacegroup, dmPlain, qres, nres>>
FitOnly    == UNCHANGED <<parserVars, moveVars, mainVars, dmVars, alignVars, buildVars,
                          atomVars, polyVars, structVars>>
AtomOnly   == UNCHANGED <<parserVars, moveVars, mainVars, dmVars, alignVars, buildVars,
                          fitVars, polyVars, structVars>>
PolyOnly   == UNCHANGED <<parserVars, moveVars, mainVars, dmVars, alignVars, buildVars,
                          fitVars, atomVars, structVars>>
StructOnly == UNCHANGED <<parserVars, moveVars, mainVars, dmVars, alignVars, buildVars,
                          fitVars, atomVars, polyVars>>

\* Bind(x, F) is F(x) with x evaluated once
Bind(x, F(_)) == CHOOSE r \in {F(v) : v \in {x}} : TRUE

(***************************************************************************)
(* Bounds                                                                  *)
(***************************************************************************)
MaxEdits == 1

(***************************************************************************)
(* Characters                                                              *)
(***************************************************************************)
NUL == "NUL"
TAB == "TAB"

CharCode(ch) ==
    CASE ch = NUL -> 0
      [] ch = TAB -> 9
      [] ch = " " -> 32
      [] ch = "+" -> 43
      [] ch = "," -> 44
      [] ch = "-" -> 45
      [] ch = "/" -> 47
      [] ch = "0" -> 48
      [] ch = "1" -> 49
      [] ch = "2" -> 50
      [] ch = "3" -> 51
      [] ch = "4" -> 52
      [] ch = "5" -> 53
      [] ch = "6" -> 54
      [] ch = "7" -> 55
      [] ch = "8" -> 56
      [] ch = "9" -> 57
      [] ch = "?" -> 63
      [] ch = "X" -> 88
      [] ch = "Y" -> 89
      [] ch = "Z" -> 90
      [] ch = "x" -> 120
      [] ch = "y" -> 121
      [] ch = "z" -> 122

isdigit(ch) == CharCode(ch) \in 48..57

(***************************************************************************)
(* SymopParser                                                             *)
(***************************************************************************)
Eof    == 0
Number == 256
XYZ    == 257

\* m_nr has no initializer: its value is indeterminate until next_token sets it
Uninit == -1

ZeroOp == [k \in 1..15 |-> 0]

RECURSIVE next_token(_, _, _)
next_token(s, p, nr) ==
    IF p > Len(s) THEN [tok |-> Eof, p |-> p, nr |-> nr]
    ELSE LET ch == s[p] IN
         IF ch = " " THEN next_token(s, p + 1, nr)
         ELSE IF ch \in {"x", "X"} THEN [tok |-> XYZ, p |-> p + 1, nr |-> 0]
         ELSE IF ch \in {"y", "Y"} THEN [tok |-> XYZ, p |-> p + 1, nr |-> 1]
         ELSE IF ch \in {"z", "Z"} THEN [tok |-> XYZ, p |-> p + 1, nr |-> 2]
         ELSE IF isdigit(ch)
              THEN [tok |-> Number, p |-> p + 1, nr |-> CharCode(ch) - 48]
              ELSE [tok |-> CharCode(ch), p |-> p + 1, nr |-> nr]

\* A parser in flight: s the text, p the index of *m_p, la m_lookahead,
\* nr m_nr, mem m_rot followed by m_trn, thrown whether an exception is in
\* flight, ub whether a store went outside m_rot/m_trn.
match(st0, token) ==
    Bind(st0, LAMBDA st :
        IF st.thrown THEN st
        ELSE IF st.la # token THEN [st EXCEPT !.thrown = TRUE]
        ELSE Bind(next_token(st.s, st.p, st.nr), LAMBDA t :
                 [st EXCEPT !.la = t.tok, !.p = t.p, !.nr = t.nr]))

\* a variant that drops the sign of an axis term
StoreRot_NoSign(st0, row, sign) ==
    Bind(st0, LAMBDA st :
        IF st.thrown THEN st
        ELSE IF st.nr = Uninit \/ row * 3 + st.nr > 14 THEN [st EXCEPT !.ub = TRUE]
        ELSE [st EXCEPT !.mem[row * 3 + st.nr + 1] = 1])

\* m_rot[row][m_nr] = sign: m_rot and m_trn are adjacent int arrays, so an
\* index beyond 2 lands in a later row or in m_trn; an indeterminate m_nr or
\* an index beyond m_trn is a store outside the object's arrays.
StoreRot(st0, row, sign) ==
    Bind(st0, LAMBDA st :
        IF st.thrown THEN st
        ELSE IF st.nr = Uninit \/ row * 3 + st.nr > 14 THEN [st EXCEPT !.ub = TRUE]
        ELSE [st EXCEPT !.mem[row * 3 + st.nr + 1] = sign])

\* a variant that leaves out the offset of m_trn behind m_rot
StoreTrn_NoOffset(st0, row, col, v) ==
    Bind(st0, LAMBDA st :
        IF st.thrown THEN st ELSE [st EXCEPT !.mem[row * 2 + col + 1] = v])

\* m_trn[row][col] = v
StoreTrn(st0, row, col, v) ==
    Bind(st0, LAMBDA st :
        IF st.thrown THEN st ELSE [st EXCEPT !.mem[9 + row * 2 + col + 1] = v])

\* one pass of the do-while body of parsepart
parseterm(st0, row) ==
    Bind(st0, LAMBDA st :
      Bind(IF st.la \in {CharCode("-"), CharCode("+")} THEN match(st, st.la) ELSE st,
           LAMBDA s1 :
             IF s1.la = Number
             THEN Bind(match(match(StoreTrn(s1, row, 0,
                                     (IF st.la = CharCode("-") THEN -1 ELSE 1) * s1.nr),
                                   Number), CharCode("/")),
                       LAMBDA s3 : match(StoreTrn(s3, row, 1, s3.nr), Number))
             ELSE match(StoreRot(s1, row, IF st.la = CharCode("-") THEN -1 ELSE 1), XYZ)))

RECURSIVE parsepart(_, _)
parsepart(st0, row) ==
    Bind(st0, LAMBDA st :
        IF st.thrown THEN st
        ELSE Bind(parseterm(st, row), LAMBDA s1 :
                 IF ~s1.thrown /\ s1.la \in {CharCode("+"), CharCode("-")}
                 THEN parsepart(s1, row)
                 ELSE s1))

parse(s) ==
    Bind(next_token(s, 1, Uninit), LAMBDA t0 :
      Bind(parsepart(match(parsepart(match(parsepart(
                [s |-> s, p |-> t0.p, la |-> t0.tok, nr |-> t0.nr,
                 mem |-> ZeroOp, thrown |-> FALSE, ub |-> FALSE],
                0), CharCode(",")), 1), CharCode(",")), 2),
           LAMBDA s3 :
             IF s3.thrown \/ s3.la # 0 \/ s3.p # Len(s) + 1
             THEN [status |-> "error", op |-> <<>>, ub |-> s3.ub]
             ELSE [status |-> "ok", op |-> s3.mem, ub |-> s3.ub]))

\* What a call of parse can do: return, throw, or - after a store outside
\* the object's arrays - bring the process down.
ParseOutcomes(s) ==
    UNION {{[status |-> r.status, op |-> r.op]} \cup
           (IF r.ub THEN {[status |-> "crash", op |-> <<>>]} ELSE {}) : r \in {parse(s)}}

(***************************************************************************)
(* Inputs of the parser: three parts joined by commas, then up to MaxEdits *)
(* single-character insertions.                                            *)
(***************************************************************************)
Parts == { <<"1", "/", "2", "+", "x">>, <<"-", "y">>,
           <<"1", "/", "2", "-", "z">>, <<"x", "-", "y">> }

EditChars == {" ", TAB, NUL, "?", ",", "3", "Z", "+"}

Example == <<"1", "/", "2", "+", "x", ",", "-", "y", ",", "1", "/", "2", "-", "z">>

InsertAt(s, k, ch) == SubSeq(s, 1, k) \o <<ch>> \o SubSeq(s, k + 1, Len(s))
RemoveAt(s, k)     == SubSeq(s, 1, k - 1) \o SubSeq(s, k + 1, Len(s))

NoIns    == [ch |-> "", pos |-> 0]
NoResult == [status |-> "none", op |-> <<>>]

ParserIdle ==
    /\ text = <<>> /\ edits = 0 /\ lastIns = NoIns /\ presult = NoResult

ParserInit ==
    /\ text \in {a \o <<",">> \o b \o <<",">> \o c : a \in Parts, b \in Parts, c \in Parts}
    /\ edits = 0
    /\ lastIns = NoIns
    /\ presult = NoResult

\* the caller hands parse a text with one more character in it
InsertChar ==
    /\ ParserOnly
    /\ presult.status = "none"
    /\ edits < MaxEdits
    /\ \E k \in 0..Len(text), ch \in EditChars :
          /\ text' = InsertAt(text, k, ch)
          /\ lastIns' = [ch |-> ch, pos |-> k + 1]
    /\ edits' = edits + 1
    /\ UNCHANGED presult

\* SymopParser p; p.parse(text)
DoParse ==
    /\ ParserOnly
    /\ presult.status = "none"
    /\ presult' \in ParseOutcomes(text)
    /\ UNCHANGED <<text, edits, lastIns>>

ParserNext == InsertChar \/ DoParse

(***************************************************************************)
(* move_symop                                                              *)
(***************************************************************************)
Abs(n) == IF n < 0 THEN -n ELSE n

\* C++ integer division and remainder truncate towards zero (b # 0)
CDiv(a, b) ==
    LET q == Abs(a) \div Abs(b) IN IF (a < 0) # (b < 0) THEN -q ELSE q
CRem(a, b) == a - b * CDiv(a, b)

\* for (int j = 5; j > 1; --j) if (n % j == 0 and d % j == 0) { n /= j; d /= j; }
RECURSIVE Reduce(_, _)
Reduce(f, j) ==
    IF j <= 1 THEN f
    ELSE IF CRem(f[1], j) = 0 /\ CRem(f[2], j) = 0
         THEN Reduce(<<CDiv(f[1], j), CDiv(f[2], j)>>, j - 1)
         ELSE Reduce(f, j - 1)

\* a variant without the `if (cenop[i] == 0) continue;`
MoveRow_NoSkip(sn, sd, cn, cd) ==
    IF sn = 0
    THEN [n |-> cn, d |-> cd,
          fault |-> IF cd = 0 \/ sd # 0 THEN "assert" ELSE "none"]
    ELSE LET sum == IF sd = cd THEN <<sn + cn, sd>>
                    ELSE <<sn * cd + sd * cn, sd * cd>>
             r   == Reduce(sum, 5)
         IN  IF r[2] = 0 THEN [n |-> r[1], d |-> r[2], fault |-> "div0"]
             ELSE LET n2 == CRem(r[1] + r[2], r[2])
                  IN  [n |-> n2, d |-> IF n2 = 0 THEN 0 ELSE r[2],
                       fault |-> IF cd = 0 THEN "assert" ELSE "none"]

\* One pass of the loop body for the row <<sn, sd>> of symop and <<cn, cd>>
\* of cenop.  fault: "assert" when an assert fails (the release build goes
\* on), "div0" when the modulo divides by zero.
MoveRow(sn, sd, cn, cd) ==
    IF cn = 0 THEN [n |-> sn, d |-> sd, fault |-> "none"]
    ELSE IF sn = 0
         THEN [n |-> cn, d |-> cd,
               fault |-> IF cd = 0 \/ sd # 0 THEN "assert" ELSE "none"]
    ELSE LET sum == IF sd = cd THEN <<sn + cn, sd>>
                    ELSE <<sn * cd + sd * cn, sd * cd>>
             r   == Reduce(sum, 5)
         IN  IF r[2] = 0 THEN [n |-> r[1], d |-> r[2], fault |-> "div0"]
             ELSE LET n2 == CRem(r[1] + r[2], r[2])
                  IN  [n |-> n2, d |-> IF n2 = 0 THEN 0 ELSE r[2],
                       fault |-> IF cd = 0 THEN "assert" ELSE "none"]

move_symop(s, c) ==
    LET row(i) == MoveRow(s[i], s[i + 1], c[i], c[i + 1])
        faults == {row(i).fault : i \in {10, 12, 14}}
    IN  [op    |-> [k \in 1..15 |->
                      IF k < 10 THEN s[k]
                      ELSE IF k % 2 = 0 THEN row(k).n ELSE row(k - 1).d],
         fault |-> IF "div0" \in faults THEN "div0"
                   ELSE IF "assert" \in faults THEN "assert" ELSE "none"]

\* What a call can do: return; abort in a failed assert (debug build) or
\* return (release build); die in the division by zero.
MoveOutcomes(s, c) ==
    LET r == move_symop(s, c)
    IN  CASE r.fault = "none"   -> {[status |-> "ok", op |-> r.op]}
          [] r.fault = "assert" -> {[status |-> "ok", op |-> r.op],
                                    [status |-> "crash", op |-> <<>>]}
          [] r.fault = "div0"   -> {[status |-> "crash", op |-> <<>>]}

\* Inputs: operators as the parser returns them
Rotations == { <<1, 0, 0, 0, 1, 0, 0, 0, 1>>, <<1, 0, 0, 0, -1, 0, 0, 0, -1>>,
               <<0, -1, 0, 1, -1, 0, 0, 0, 1>> }
SymTrn == { <<0, 0>>, <<1, 2>>, <<-1, 2>>, <<1, 4>>, <<2, 3>>, <<1, 6>> }
CenTrn == { <<0, 0>>, <<1, 2>>, <<1, 3>>, <<2, 3>>, <<-2, 3>> }

MkOp(rot, t1, t2, t3) == rot \o t1 \o t2 \o t3

MoveIdle == symop = <<>> /\ cenop = <<>> /\ mresult = NoResult

MoveInit ==
    /\ symop \in {MkOp(r, a, b, c) : r \in Rotations, a \in SymTrn, b \in SymTrn, c \in SymTrn}
    /\ cenop \in {MkOp(<<1, 0, 0, 0, 1, 0, 0, 0, 1>>, a, b, c) : a \in CenTrn, b \in CenTrn, c \in CenTrn}
    /\ mresult = NoResult

DoMove ==
    /\ MoveOnly
    /\ mresult.status = "none"
    /\ mresult' \in MoveOutcomes(symop, cenop)
    /\ UNCHANGED <<symop, cenop>>

MoveNext == DoMove

(***************************************************************************)
(* main of symop-map-generator: the input file is read line by line; the   *)
(* lines are drawn from Lines.                                             *)
(***************************************************************************)
MaxLines == 6

GoodTexts == { <<"x", ",", "y", ",", "z">>,
               <<"1", "/", "2", "+", "x", ",", "1", "/", "2", "+", "y", ",", "z">> }
BadTexts  == { <<"x", ",", "y">>, <<",", "y", ",", "z">> }
GenTexts  == GoodTexts \cup BadTexts

Lines ==
    {[kind |-> "begin"], [kind |-> "end"], [kind |-> "other"]}
    \cup {[kind |-> "symop", expr |-> t] : t \in GenTexts}
    \cup {[kind |-> "cenop", expr |-> t] : t \in GenTexts}
    \cup {[kind |-> "ccp4", nr |-> n] : n \in {0, 1}}
    \cup {[kind |-> "symbol", which |-> "old", v1 |-> <<"y">>, v2 |-> <<>>],
          [kind |-> "symbol", which |-> "old", v1 |-> <<"z">>, v2 |-> <<"x">>],
          [kind |-> "symbol", which |-> "xHM", v1 |-> <<"X">>, v2 |-> <<>>],
          [kind |-> "symbol", which |-> "Hall", v1 |-> <<"Z">>, v2 |-> <<>>]}

\* a variant that gives every block the first synthetic id
NewBlock_Seed(nr) == [nr |-> 10001, xHM |-> <<>>, Hall |-> <<>>, old0 |-> <<>>, old1 |-> <<>>]

\* SymInfoBlock cur = { nr }
NewBlock(nr) == [nr |-> nr, xHM |-> <<>>, Hall |-> <<>>, old0 |-> <<>>, old1 |-> <<>>]

\* lexicographic order on sequences of integers (std::tuple / std::array operator<)
RECURSIVE SeqLess(_, _)
SeqLess(a, b) ==
    IF b = <<>> THEN FALSE
    ELSE IF a = <<>> THEN TRUE
    ELSE IF Head(a) # Head(b) THEN Head(a) < Head(b)
    ELSE SeqLess(Tail(a), Tail(b))

\* std::string operator<
StrLess(a, b) == SeqLess([i \in 1..Len(a) |-> CharCode(a[i])], [i \in 1..Len(b) |-> CharCode(b[i])])

\* a row of data: <<nr, symopnr, op>>
DataLess(a, b) == SeqLess(<<a[1], a[2]>> \o a[3], <<b[1], b[2]>> \o b[3])

\* a row of spacegroups: <<old, nr, xHM, Hall>>
NameLess(a, b) ==
    IF a[1] # b[1] THEN StrLess(a[1], b[1])
    ELSE IF a[2] # b[2] THEN a[2] < b[2]
    ELSE IF a[3] # b[3] THEN StrLess(a[3], b[3])
    ELSE StrLess(a[4], b[4])

\* the comparison std::sort uses for a vector of the given kind of rows
RowLess(kind, a, b) == IF kind = "data" THEN DataLess(a, b) ELSE NameLess(a, b)

RECURSIVE InsertSorted(_, _, _)
InsertSorted(seq, e, kind) ==
    IF seq = <<>> THEN <<e>>
    ELSE IF RowLess(kind, e, Head(seq)) THEN <<e>> \o seq
    ELSE <<Head(seq)>> \o InsertSorted(Tail(seq), e, kind)

\* std::sort (the order of equal elements does not show: they are equal)
\* a variant that leaves the rows in the order they were appended
Sort_Unsorted(seq, kind) == seq

RECURSIVE Sort(_, _)
Sort(seq, kind) ==
    IF seq = <<>> THEN <<>>
    ELSE InsertSorted(Sort(SubSeq(seq, 1, Len(seq) - 1), kind), seq[Len(seq)], kind)

\* a variant with the symops in the outer loop and the cenops in the inner
RECURSIVE Compose_SymopOuter(_, _, _, _, _, _)
Compose_SymopOuter(cs, ss, ci, si, id, nr0) ==
    IF si > Len(ss) THEN <<>>
    ELSE IF ci > Len(cs) THEN Compose_SymopOuter(cs, ss, 1, si + 1, id, nr0)
    ELSE <<[row |-> <<id, nr0, move_symop(ss[si], cs[ci]).op>>,
            fault |-> move_symop(ss[si], cs[ci]).fault]>>
         \o Compose_SymopOuter(cs, ss, ci + 1, si, id, nr0 + 1)

\* a variant that appends every symop once, whatever the cenops are
Compose_PerSymop(cs, ss, ci, si, id, nr0) ==
    [k \in 1..Len(ss) |-> [row |-> <<id, nr0 + k - 1, ss[k]>>, fault |-> "none"]]

\* the rows the end_spacegroup branch appends to data: cenops outer, symops
\* inner, numbered from nr0
RECURSIVE Compose(_, _, _, _, _, _)
Compose(cs, ss, ci, si, id, nr0) ==
    IF ci > Len(cs) THEN <<>>
    ELSE IF si > Len(ss) THEN Compose(cs, ss, ci + 1, 1, id, nr0)
    ELSE <<[row |-> <<id, nr0, move_symop(ss[si], cs[ci]).op>>,
            fault |-> move_symop(ss[si], cs[ci]).fault]>>
         \o Compose(cs, ss, ci, si + 1, id, nr0 + 1)

\* for (auto& [nr, info]: symInfo) spacegroups.emplace_back(...): std::map
\* iterates in key order; sort follows
RECURSIVE NameRows(_, _)
NameRows(info, keys) ==
    IF keys = {} THEN <<>>
    ELSE LET nr == CHOOSE k \in keys : \A j \in keys : k <= j
             i  == info[nr]
         IN  <<<<i.old0, nr, i.xHM, i.Hall>>>>
             \o (IF i.old1 # <<>> THEN <<<<i.old1, nr, i.xHM, i.Hall>>>> ELSE <<>>)
             \o NameRows(info, keys \ {nr})

EmptyMap == [k \in {} |-> 0]

\* symInfo.emplace(cur.nr, cur): an id that is in the map keeps its block
Emplace(info, c) ==
    IF c.nr \in DOMAIN info THEN info
    ELSE [k \in DOMAIN info \cup {c.nr} |-> IF k = c.nr THEN c ELSE info[k]]

\* the destination before the run: no file, or the output of an earlier run
FileAbsent   == [kind |-> "absent", names |-> <<>>, table |-> <<>>]
FilePrevious == [kind |-> "previous", names |-> <<>>, table |-> <<>>]

MainIdle ==
    /\ pc = "idle" /\ nread = 0 /\ state = "skip" /\ symopnr = Uninit
    /\ mysymnr = 10000 /\ cur = NewBlock(0) /\ symops = <<>> /\ cenops = <<>>
    /\ data = <<>> /\ symInfo = EmptyMap /\ tmpFileSt = "absent"
    /\ destFile = FileAbsent /\ reported = FALSE /\ exc = "" /\ exitStatus = -1

MainInit ==
    /\ pc = "start" /\ nread = 0 /\ state = "skip" /\ symopnr = Uninit
    /\ mysymnr = 10000 /\ cur = NewBlock(0) /\ symops = <<>> /\ cenops = <<>>
    /\ data = <<>> /\ symInfo = EmptyMap
    /\ tmpFileSt \in {"absent", "stale"}
    /\ destFile \in {FileAbsent, FilePrevious}
    /\ reported = FALSE /\ exc = "" /\ exitStatus = -1

\* catch (const std::exception& ex) { std::cerr << ... << ex.what(); } return 0;
Throw(what) ==
    /\ pc' = "exit" /\ exc' = what /\ reported' = TRUE /\ exitStatus' = 0

\* the process is killed (signal or abort): no handler runs
Crash ==
    /\ pc' = "exit" /\ exc' = "" /\ reported' = FALSE /\ exitStatus' = 134

\* command line: usage when input or output is missing or --help is given
Usage ==
    /\ MainOnly
    /\ pc = "start"
    /\ \E help \in BOOLEAN :
          /\ exitStatus' = (IF help THEN 0 ELSE 1)
          /\ pc' = "exit"
    /\ UNCHANGED <<nread, state, symopnr, mysymnr, cur, symops, cenops, data,
                   symInfo, tmpFileSt, destFile, reported, exc>>

\* po::store throws on an unknown option; std::ofstream out(tmpFile) fails
BadStart ==
    /\ MainOnly
    /\ pc = "start"
    /\ \E what \in {"unknown option", "Failed to open output file"} : Throw(what)
    /\ UNCHANGED <<nread, state, symopnr, mysymnr, cur, symops, cenops, data,
                   symInfo, tmpFileSt, destFile>>

\* the temporary file is created (truncated), then the input fails to open
NoInput ==
    /\ MainOnly
    /\ pc = "start"
    /\ tmpFileSt' = "empty"
    /\ Throw("Could not open syminfo.lib file")
    /\ UNCHANGED <<nread, state, symopnr, mysymnr, cur, symops, cenops, data,
                   symInfo, destFile>>

Start ==
    /\ MainOnly
    /\ pc = "start"
    /\ tmpFileSt' = "empty"
    /\ pc' = "read"
    /\ UNCHANGED <<nread, state, symopnr, mysymnr, cur, symops, cenops, data,
                   symInfo, destFile, reported, exc, exitStatus>>

\* getline returned a line
Reading == pc = "read" /\ nread < MaxLines

\* case State::skip
SkipLine ==
    /\ MainOnly
    /\ Reading /\ state = "skip"
    /\ \E line \in Lines :
          IF line.kind = "begin"
          THEN /\ state' = "spacegroup"
               /\ symopnr' = 1
               /\ mysymnr' = mysymnr + 1
               /\ cur' = NewBlock(mysymnr + 1)
          ELSE UNCHANGED <<state, symopnr, mysymnr, cur>>
    /\ nread' = nread + 1
    /\ UNCHANGED <<pc, symops, cenops, data, symInfo, tmpFileSt, destFile,
                   reported, exc, exitStatus>>

\* case State::spacegroup, regex_match(line, m, rx)
SymbolLine ==
    /\ MainOnly
    /\ Reading /\ state = "spacegroup"
    /\ \E line \in {l \in Lines : l.kind = "symbol"} :
          cur' = CASE line.which = "old" ->
                        [cur EXCEPT !.old0 = line.v1,
                                    !.old1 = IF line.v2 # <<>> THEN line.v2 ELSE @]
                   [] line.which = "xHM"  -> [cur EXCEPT !.xHM = line.v1]
                   [] line.which = "Hall" -> [cur EXCEPT !.Hall = line.v1]
    /\ nread' = nread + 1
    /\ UNCHANGED <<pc, state, symopnr, mysymnr, symops, cenops, data, symInfo,
                   tmpFileSt, destFile, reported, exc, exitStatus>>

\* case State::spacegroup, regex_match(line, m, rx2)
Ccp4Line ==
    /\ MainOnly
    /\ Reading /\ state = "spacegroup"
    /\ \E line \in {l \in Lines : l.kind = "ccp4"} :
          cur' = IF line.nr # 0 THEN [cur EXCEPT !.nr = line.nr] ELSE cur
    /\ nread' = nread + 1
    /\ UNCHANGED <<pc, state, symopnr, mysymnr, symops, cenops, data, symInfo,
                   tmpFileSt, destFile, reported, exc, exitStatus>>

\* a variant that catches the exception line by line, reports it and reads on
ParseLine_CatchPerLine(expr, v, vNew) ==
    \E r \in ParseOutcomes(expr) :
        CASE r.status = "ok" ->
               /\ vNew = Append(v, r.op)
               /\ nread' = nread + 1
               /\ UNCHANGED <<pc, reported, exc, exitStatus>>
          [] r.status = "error" ->
               /\ vNew = v
               /\ exc' = "Unexpected character" /\ reported' = TRUE
               /\ nread' = nread + 1
               /\ UNCHANGED <<pc, exitStatus>>
          [] r.status = "crash" ->
               /\ vNew = v
               /\ Crash
               /\ UNCHANGED nread

\* the effect of SymopParser p; v.emplace_back(p.parse(line.substr(6)))
\* on the vector v
ParseLine(expr, v, vNew) ==
    \E r \in ParseOutcomes(expr) :
        CASE r.status = "ok" ->
               /\ vNew = Append(v, r.op)
               /\ nread' = nread + 1
               /\ UNCHANGED <<pc, reported, exc, exitStatus>>
          [] r.status = "error" ->
               /\ vNew = v
               /\ Throw("Unexpected character")
               /\ UNCHANGED nread
          [] r.status = "crash" ->
               /\ vNew = v
               /\ Crash
               /\ UNCHANGED nread

\* case State::spacegroup, line.compare(0, 6, "symop ") == 0
SymopLine ==
    /\ MainOnly
    /\ Reading /\ state = "spacegroup"
    /\ \E line \in {l \in Lines : l.kind = "symop"} :
          ParseLine(line.expr, symops, symops')
    /\ UNCHANGED <<state, symopnr, mysymnr, cur, cenops, data, symInfo,
                   tmpFileSt, destFile>>

\* case State::spacegroup, line.compare(0, 6, "cenop ") == 0
CenopLine ==
    /\ MainOnly
    /\ Reading /\ state = "spacegroup"
    /\ \E line \in {l \in Lines : l.kind = "cenop"} :
          ParseLine(line.expr, cenops, cenops')
    /\ UNCHANGED <<state, symopnr, mysymnr, cur, symops, data, symInfo,
                   tmpFileSt, destFile>>

\* case State::spacegroup, line == "end_spacegroup"
EndLine ==
    /\ MainOnly
    /\ Reading /\ state = "spacegroup"
    /\ LET rows   == Compose(cenops, symops, 1, 1, cur.nr, symopnr)
           faults == {rows[i].fault : i \in 1..Len(rows)}
       IN  \E abort \in BOOLEAN :
             IF "div0" \in faults \/ ("assert" \in faults /\ abort)
             THEN /\ Crash
                  /\ UNCHANGED <<nread, state, symopnr, cur, symops, cenops,
                                 data, symInfo>>
             ELSE /\ data' = data \o [i \in 1..Len(rows) |-> rows[i].row]
                  /\ symopnr' = symopnr + Len(rows)
                  /\ symInfo' = Emplace(symInfo, cur)
                  /\ state' = "skip"
                  /\ symops' = <<>>
                  /\ cenops' = <<>>
                  /\ nread' = nread + 1
                  /\ UNCHANGED <<pc, cur, reported, exc, exitStatus>>
    /\ UNCHANGED <<mysymnr, tmpFileSt, destFile>>

\* case State::spacegroup, a line no branch matches (begin_spacegroup too)
IgnoredLine ==
    /\ MainOnly
    /\ Reading /\ state = "spacegroup"
    /\ \E line \in {l \in Lines : l.kind \in {"begin", "other"}} :
          nread' = nread + 1
    /\ UNCHANGED <<pc, state, symopnr, mysymnr, cur, symops, cenops, data,
                   symInfo, tmpFileSt, destFile, reported, exc, exitStatus>>

\* what the run writes to the temporary file: the name index and the table
Table(d, info) ==
    [kind |-> "table", names |-> Sort(NameRows(info, DOMAIN info), "names"), table |-> d]

\* getline fails: sort, write both tables, out.close(), fs::rename
Finish ==
    /\ MainOnly
    /\ pc = "read"
    /\ data' = Sort(data, "data")
    /\ \E renamed \in BOOLEAN :
          IF renamed
          THEN /\ destFile' = Table(data', symInfo)
               /\ tmpFileSt' = "absent"
               /\ pc' = "exit" /\ exitStatus' = 0
               /\ UNCHANGED <<reported, exc>>
          ELSE /\ Throw("filesystem error: rename")
               /\ tmpFileSt' = "written"
               /\ UNCHANGED destFile
    /\ UNCHANGED <<nread, state, symopnr, mysymnr, cur, symops, cenops, symInfo>>

MainNext ==
    \/ Usage \/ BadStart \/ NoInput \/ Start
    \/ SkipLine \/ SymbolLine \/ Ccp4Line \/ SymopLine \/ CenopLine
    \/ EndLine \/ IgnoredLine \/ Finish

(***************************************************************************)
(* main at the end of an input file made of whole blocks.  A block is the  *)
(* line begin_spacegroup, a `symbol ccp4` line when legacy is not 0, a     *)
(* `symbol old` line when old is not empty, its symop lines, its cenop     *)
(* lines and the line end_spacegroup.                                      *)
(***************************************************************************)
MaxBlocks == 2

OpTexts == { << <<"x", ",", "y", ",", "z">> >>,
             << <<"x", ",", "y", ",", "z">>,
                <<"1", "/", "2", "+", "x", ",", "1", "/", "2", "+", "y", ",", "z">> >> }

FileBlocks ==
    [legacy : {0, 1, 2},
     old    : {<<>>, << <<"y">> >>, << <<"z">>, <<"x">> >>},
     symops : OpTexts,
     cenops : OpTexts]

\* the variables of the read loop after the lines of block b were read
ReadBlock(st, b) ==
    LET c0 == NewBlock(st.mysymnr + 1)
        c1 == IF b.legacy # 0 THEN [c0 EXCEPT !.nr = b.legacy] ELSE c0
        c2 == IF b.old = <<>> THEN c1
              ELSE [c1 EXCEPT !.old0 = b.old[1],
                              !.old1 = IF Len(b.old) > 1 THEN b.old[2] ELSE @]
    IN  Bind(Compose([i \in DOMAIN b.cenops |-> parse(b.cenops[i]).op],
                     [i \in DOMAIN b.symops |-> parse(b.symops[i]).op],
                     1, 1, c2.nr, 1),
             LAMBDA rows :
               [data    |-> st.data \o [i \in 1..Len(rows) |-> rows[i].row],
                symInfo |-> Emplace(st.symInfo, c2),
                mysymnr |-> st.mysymnr + 1,
                symopnr |-> 1 + Len(rows),
                cur     |-> c2,
                nread   |-> st.nread + 2 + (IF b.legacy # 0 THEN 1 ELSE 0)
                              + (IF b.old = <<>> THEN 0 ELSE 1)
                              + Len(b.symops) + Len(b.cenops)])

RECURSIVE ReadBlocks(_, _, _)
ReadBlocks(st, blocks, k) ==
    IF k > Len(blocks) THEN st
    ELSE ReadBlocks(ReadBlock(st, blocks[k]), blocks, k + 1)

\* the state in which getline fails
EofInit ==
    \E blocks \in UNION {[1..n -> FileBlocks] : n \in 1..MaxBlocks} :
        \E st \in {ReadBlocks([data |-> <<>>, symInfo |-> EmptyMap, mysymnr |-> 10000,
                               symopnr |-> Uninit, cur |-> NewBlock(0), nread |-> 0],
                              blocks, 1)} :
            /\ pc = "read" /\ state = "skip"
            /\ nread = st.nread /\ symopnr = st.symopnr /\ mysymnr = st.mysymnr
            /\ cur = st.cur /\ data = st.data /\ symInfo = st.symInfo
            /\ symops = <<>> /\ cenops = <<>>
            /\ tmpFileSt = "empty"
            /\ destFile \in {FileAbsent, FilePrevious}
            /\ reported = FALSE /\ exc = "" /\ exitStatus = -1

EofNext == Finish

(***************************************************************************)
(* Structure and DistanceMap.  Coordinates are whole Angstroms; a distance *)
(* is kept in units of 1/DistUnit Angstrom, rounded down, as the float the *)
(* code stores is the rounded square root.                                 *)
(***************************************************************************)
DistUnit   == 100
MaxWorkers == 2

kMaxDistance == 5
Sentinel     == 100 * DistUnit

RECURSIVE SqrtSearch(_, _, _)
SqrtSearch(n, lo, hi) ==
    IF lo >= hi THEN lo
    ELSE LET mid == (lo + hi + 1) \div 2
         IN  IF mid * mid <= n THEN SqrtSearch(n, mid, hi) ELSE SqrtSearch(n, lo, mid - 1)

\* sqrt of a squared length r2 (in square Angstrom), in distance units
Sqrt(r2) == SqrtSearch(r2 * DistUnit * DistUnit, 0, (r2 + 1) * DistUnit)

lengthsq(p, q) ==
    (p[1] - q[1]) * (p[1] - q[1]) + (p[2] - q[2]) * (p[2] - q[2])
        + (p[3] - q[3]) * (p[3] - q[3])

Distance(p, q) == Sqrt(lengthsq(p, q))

\* atom ids are strings, ordered as std::string orders them
AtomIds == << <<"1">>, <<"2">>, <<"1", "0">> >>

\* Structure::updateAtomIndex: the positions of atoms sorted by id
RECURSIVE IndexSort(_, _)
IndexSort(atoms, todo) ==
    IF todo = {} THEN <<>>
    ELSE LET k == CHOOSE i \in todo :
                    \A j \in todo \ {i} : ~StrLess(atoms[j].id, atoms[i].id) /\
                                          (atoms[j].id = atoms[i].id => i < j)
         IN  <<k>> \o IndexSort(atoms, todo \ {k})

updateAtomIndex(atoms) == IndexSort(atoms, DOMAIN atoms)

\* std::lower_bound over mAtomIndex: the first position whose atom's id is
\* not less than id
RECURSIVE lower_bound(_, _, _, _)
lower_bound(atoms, ix, id, k) ==
    IF k > Len(ix) THEN k
    ELSE IF StrLess(atoms[ix[k]].id, id) THEN lower_bound(atoms, ix, id, k + 1)
    ELSE k

\* Structure::getAtomById
getAtomById(atoms, id) ==
    LET ix == updateAtomIndex(atoms)
        i  == lower_bound(atoms, ix, id, 1)
    IN  IF i > Len(ix) \/ atoms[ix[i]].id # id
        THEN [status |-> "out_of_range"]
        ELSE [status |-> "ok", atom |-> atoms[ix[i]]]

\* toCell: the loops of the three axes; the upper bound of every axis is
\* compared with cell.a()
RECURSIVE WrapUp(_, _)
WrapUp(x, step) == IF x < 0 THEN WrapUp(x + step, step) ELSE x

RECURSIVE WrapDown(_, _, _)
WrapDown(x, limit, step) == IF x > limit THEN WrapDown(x - step, limit, step) ELSE x

toCell(p, c) ==
    << WrapDown(WrapUp(p[1], c[1]), c[1], c[1]),
       WrapDown(WrapUp(p[2], c[2]), c[1], c[2]),
       WrapDown(WrapUp(p[3], c[3]), c[1], c[3]) >>

\* AlternativeSites: every symop combined with the 27 lattice shifts, as
\* orthogonal transforms of an orthogonal cell.  A symop is a diagonal
\* rotation rot (entries 1 or -1) and a translation of trn2/2 cell edges.
Shifts == {<<u, v, w>> : u \in {-1, 0, 1}, v \in {-1, 0, 1}, w \in {-1, 0, 1}}

AlternativeSites(sg, c) ==
    {[rot |-> sg[i].rot,
      trn |-> [k \in 1..3 |-> (sg[i].trn2[k] * c[k]) \div 2 + sh[k] * c[k]]]
        : i \in DOMAIN sg, sh \in Shifts}

\* Coord_orth::transform
transform(p, rt) == [k \in 1..3 |-> rt.rot[k] * p[k] + rt.trn[k]]

SetMin(S) == CHOOSE m \in S : \A n \in S : m <= n

\* index[atom.id()] = index.size(), atom by atom
RECURSIVE BuildIndex(_, _, _)
BuildIndex(atoms, k, index) ==
    IF k > Len(atoms) THEN index
    ELSE LET id == atoms[k].id
             ix == Cardinality(DOMAIN index)
         IN  BuildIndex(atoms, k + 1,
                 [i \in DOMAIN index \cup {id} |-> IF i = id THEN ix ELSE index[i]])

\* a variant that pairs every slot with itself too
Pairs_WithDiagonal(dim) == {<<i, j>> \in (0..(dim - 1)) \X (0..(dim - 1)) : i <= j}

\* the keys of the loops for i, for j = i + 1
Pairs(dim) == {<<i, j>> \in (0..(dim - 1)) \X (0..(dim - 1)) : i < j}

NoMap == [built |-> FALSE, index |-> EmptyMap, dist |-> EmptyMap, dim |-> 0]

\* DistanceMap::DistanceMap(const Structure&, const vector<Atom>&)
PlainMap(atoms) ==
    [built |-> TRUE,
     index |-> BuildIndex(atoms, 1, EmptyMap),
     dim   |-> Len(atoms),
     dist  |-> [k \in Pairs(Len(atoms)) |->
                   Distance(atoms[k[1] + 1].loc, atoms[k[2] + 1].loc)]]

\* the minimum of r2 over rtOrth for the pair (i, j) of locations
MinR2(locations, rtOrth, i, j) ==
    SetMin({lengthsq(locations[i + 1], transform(locations[j + 1], rt)) : rt \in rtOrth})

\* a variant that stores minR2 itself instead of its square root
CrystalMap_NoSqrt(atoms, sg, c, N) ==
    LET locations == [k \in 1..Len(atoms) |-> toCell(atoms[k].loc, c)]
        rtOrth    == AlternativeSites(sg, c)
        near2     == {k \in Pairs(Len(atoms)) :
                        MinR2(locations, rtOrth, k[1], k[2]) < kMaxDistance * kMaxDistance}
    IN  [built |-> TRUE,
         index |-> BuildIndex(atoms, 1, EmptyMap),
         dim   |-> Len(atoms),
         dist  |-> IF N = 0 THEN EmptyMap
                   ELSE [k \in near2 |-> MinR2(locations, rtOrth, k[1], k[2]) * DistUnit]]

\* DistanceMap::DistanceMap(const Structure&, const Spacegroup&, const Cell&)
\* as it stands after join_all: N threads were created; with N = 0 no thread
\* runs the loop
CrystalMap(atoms, sg, c, N) ==
    LET locations == [k \in 1..Len(atoms) |-> toCell(atoms[k].loc, c)]
        rtOrth    == AlternativeSites(sg, c)
        near2     == {k \in Pairs(Len(atoms)) :
                        MinR2(locations, rtOrth, k[1], k[2]) < kMaxDistance * kMaxDistance}
    IN  [built |-> TRUE,
         index |-> BuildIndex(atoms, 1, EmptyMap),
         dim   |-> Len(atoms),
         dist  |-> IF N = 0 THEN EmptyMap
                   ELSE [k \in near2 |-> Sqrt(MinR2(locations, rtOrth, k[1], k[2]))]]

\* a variant without the swap of ixa and ixb
Query_NoSwap(dm, a, b) ==
    IF a \notin DOMAIN dm.index \/ b \notin DOMAIN dm.index
    THEN [status |-> "runtime_error", value |-> 0]
    ELSE LET k == <<dm.index[a], dm.index[b]>>
         IN  [status |-> "ok",
              value  |-> IF k \in DOMAIN dm.dist THEN dm.dist[k] ELSE Sentinel]

\* a variant that reports the sentinel for an atom absent from the index
Query_NoThrow(dm, a, b) ==
    IF a \notin DOMAIN dm.index \/ b \notin DOMAIN dm.index
    THEN [status |-> "ok", value |-> Sentinel]
    ELSE LET ixa == dm.index[a]
             ixb == dm.index[b]
             k   == IF ixb < ixa THEN <<ixb, ixa>> ELSE <<ixa, ixb>>
         IN  [status |-> "ok",
              value  |-> IF k \in DOMAIN dm.dist THEN dm.dist[k] ELSE Sentinel]

\* DistanceMap::operator()
Query(dm, a, b) ==
    IF a \notin DOMAIN dm.index \/ b \notin DOMAIN dm.index
    THEN [status |-> "runtime_error", value |-> 0]
    ELSE LET ixa == dm.index[a]
             ixb == dm.index[b]
             k   == IF ixb < ixa THEN <<ixb, ixa>> ELSE <<ixa, ixb>>
         IN  [status |-> "ok",
              value  |-> IF k \in DOMAIN dm.dist THEN dm.dist[k] ELSE Sentinel]

\* the ids of std::map index in iteration (key) order
RECURSIVE KeyOrder(_)
KeyOrder(ids) ==
    IF ids = {} THEN <<>>
    ELSE LET m == CHOOSE i \in ids : \A j \in ids \ {i} : StrLess(i, j)
         IN  <<m>> \o KeyOrder(ids \ {m})

\* a variant that compares with < instead of <=
RECURSIVE NearLoop_Strict(_, _, _, _, _, _)
NearLoop_Strict(dm, atoms, ixa, maxDistance, keys, k) ==
    IF k > Len(keys) THEN [status |-> "ok", atoms |-> <<>>]
    ELSE Bind(NearLoop_Strict(dm, atoms, ixa, maxDistance, keys, k + 1), LAMBDA rest :
           LET ixb == dm.index[keys[k]]
               key == IF ixa < ixb THEN <<ixa, ixb>> ELSE <<ixb, ixa>>
           IN  IF ixb = ixa THEN rest
               ELSE IF key \in DOMAIN dm.dist /\ dm.dist[key] < maxDistance
               THEN Bind(getAtomById(atoms, keys[k]), LAMBDA f :
                      IF f.status # "ok" \/ rest.status # "ok"
                      THEN [status |-> "out_of_range", atoms |-> <<>>]
                      ELSE [status |-> "ok", atoms |-> <<f.atom>> \o rest.atoms])
               ELSE rest)

\* the loop of DistanceMap::near over the index entries keys[k..]
RECURSIVE NearLoop(_, _, _, _, _, _)
NearLoop(dm, atoms, ixa, maxDistance, keys, k) ==
    IF k > Len(keys) THEN [status |-> "ok", atoms |-> <<>>]
    ELSE Bind(NearLoop(dm, atoms, ixa, maxDistance, keys, k + 1), LAMBDA rest :
           LET ixb == dm.index[keys[k]]
               key == IF ixa < ixb THEN <<ixa, ixb>> ELSE <<ixb, ixa>>
           IN  IF ixb = ixa THEN rest
               ELSE IF key \in DOMAIN dm.dist /\ dm.dist[key] <= maxDistance
               THEN Bind(getAtomById(atoms, keys[k]), LAMBDA f :
                      IF f.status # "ok" \/ rest.status # "ok"
                      THEN [status |-> "out_of_range", atoms |-> <<>>]
                      ELSE [status |-> "ok", atoms |-> <<f.atom>> \o rest.atoms])
               ELSE rest)

\* DistanceMap::near
Near(dm, atoms, a, maxDistance) ==
    IF a \notin DOMAIN dm.index THEN [status |-> "runtime_error", atoms |-> <<>>]
    ELSE NearLoop(dm, atoms, dm.index[a], maxDistance, KeyOrder(DOMAIN dm.index), 1)

(***************************************************************************)
(* Inputs and operations of the DistanceMap                                *)
(***************************************************************************)
Locs   == { <<1, 1, 1>>, <<-1, -1, -1>>, <<3, 1, 1>>, <<9, 1, 1>> }
Cells  == { <<10, 10, 10>>, <<20, 10, 30>> }
Groups == { << [rot |-> <<1, 1, 1>>, trn2 |-> <<0, 0, 0>>] >>,
            << [rot |-> <<1, 1, 1>>, trn2 |-> <<0, 0, 0>>],
               [rot |-> <<-1, -1, -1>>, trn2 |-> <<0, 0, 0>>] >> }
Radii  == { -DistUnit, 0, 2 * DistUnit, kMaxDistance * DistUnit, Sentinel }

NoQuery == [map |-> "none"]

\* the vectors of atoms a caller can hand to the plain constructor
AtomLists(atoms) ==
    UNION {[1..n -> {atoms[k] : k \in DOMAIN atoms}] : n \in 1..Len(atoms)}

Ids(atoms) == {atoms[k].id : k \in DOMAIN atoms}

DMIdle ==
    /\ mAtoms = <<>> /\ cell = <<>> /\ spacegroup = <<>>
    /\ dmPlain = NoMap /\ dmCrystal = NoMap /\ qres = NoQuery /\ nres = NoQuery

DMInit ==
    /\ mAtoms \in {[k \in 1..3 |-> [id |-> AtomIds[k], loc |-> l[k]]] :
                      l \in [1..3 -> Locs]}
    /\ cell \in Cells
    /\ spacegroup \in Groups
    /\ dmPlain = NoMap /\ dmCrystal = NoMap
    /\ qres = NoQuery /\ nres = NoQuery

Asked == qres # NoQuery \/ nres # NoQuery

BuildPlain ==
    /\ DMOnly
    /\ ~dmPlain.built /\ ~Asked
    /\ \E atoms \in AtomLists(mAtoms) : dmPlain' = PlainMap(atoms)
    /\ UNCHANGED <<mAtoms, cell, spacegroup, dmCrystal, qres, nres>>

\* N is what boost::thread::hardware_concurrency() returns (0 when unknown)
BuildCrystal ==
    /\ DMOnly
    /\ ~dmCrystal.built /\ ~Asked
    /\ \E N \in 0..MaxWorkers : dmCrystal' = CrystalMap(mAtoms, spacegroup, cell, N)
    /\ UNCHANGED <<mAtoms, cell, spacegroup, dmPlain, qres, nres>>

TheMap(which) == IF which = "plain" THEN dmPlain ELSE dmCrystal

DoQuery ==
    /\ DMOnly
    /\ ~Asked
    /\ \E which \in {"plain", "crystal"}, a \in Ids(mAtoms), b \in Ids(mAtoms) :
          /\ TheMap(which).built
          /\ qres' = [map |-> which, a |-> a, b |-> b, r |-> Query(TheMap(which), a, b)]
    /\ UNCHANGED <<mAtoms, cell, spacegroup, dmPlain, dmCrystal, nres>>

DoNear ==
    /\ DMOnly
    /\ ~Asked
    /\ \E which \in {"plain", "crystal"}, a \in Ids(mAtoms), r \in Radii :
          /\ TheMap(which).built
          /\ nres' = [map |-> which, a |-> a, maxDistance |-> r,
                      r |-> Near(TheMap(which), mAtoms, a, r)]
    /\ UNCHANGED <<mAtoms, cell, spacegroup, dmPlain, dmCrystal, qres>>

DMNext == BuildPlain \/ BuildCrystal \/ DoQuery \/ DoNear

(***************************************************************************)
(* The crystal constructor thread by thread: the constructing thread       *)
(* creates N workers and joins them; a worker runs the loop of the lambda. *)
(* A step of a worker is one access to next, m or dist, together with the  *)
(* thread-local computation that follows it.                               *)
(***************************************************************************)
NoWorker == 0

\* what next++ leaves in next
FetchAdd_Lost(n) == n

FetchAdd(n) == n + 1

\* locations[ix] = toCell(atom.location(), cell)
Locations == [k \in 1..Len(mAtoms) |-> toCell(mAtoms[k].loc, cell)]

BuildIdle ==
    /\ cpc = "idle" /\ wN = 0 /\ next = 0
    /\ wpc = <<>> /\ wi = <<>> /\ wj = <<>>
    /\ lock = NoWorker /\ bdist = EmptyMap

\* the constructor has filled index and locations; N is what
\* boost::thread::hardware_concurrency() returns (0 when unknown)
BuildInit ==
    /\ mAtoms \in {[k \in 1..3 |-> [id |-> AtomIds[k], loc |-> l[k]]] :
                      l \in [1..3 -> Locs]}
    /\ cell \in Cells
    /\ spacegroup \in Groups
    /\ dmPlain = NoMap /\ dmCrystal = NoMap
    /\ qres = NoQuery /\ nres = NoQuery
    /\ cpc = "create" /\ wN \in 0..MaxWorkers /\ next = 0
    /\ wpc = <<>> /\ wi = <<>> /\ wj = <<>>
    /\ lock = NoWorker /\ bdist = EmptyMap

\* t.create_thread(...)
CreateThread ==
    /\ BuildOnly
    /\ cpc = "create" /\ Len(wpc) < wN
    /\ wpc' = Append(wpc, "claim")
    /\ wi' = Append(wi, -1)
    /\ wj' = Append(wj, 0)
    /\ UNCHANGED <<cpc, wN, next, lock, bdist, dmCrystal>>

\* size_t i = next++; if (i >= locations.size()) break; j = i + 1
Claim(w) ==
    /\ BuildOnly
    /\ wpc[w] = "claim"
    /\ wi' = [wi EXCEPT ![w] = next]
    /\ next' = FetchAdd(next)
    /\ IF next >= Len(mAtoms)
       THEN wpc' = [wpc EXCEPT ![w] = "done"] /\ UNCHANGED wj
       ELSE wpc' = [wpc EXCEPT ![w] = "scan"] /\ wj' = [wj EXCEPT ![w] = next + 1]
    /\ UNCHANGED <<cpc, wN, lock, bdist, dmCrystal>>

\* one pass of for (j ...): the minimum over rtOrth and the cutoff test; at
\* the end of the loop progress.consumed(1) and the next pass of for (;;)
ScanPair(w) ==
    /\ BuildOnly
    /\ wpc[w] = "scan"
    /\ IF wj[w] >= Len(mAtoms)
       THEN wpc' = [wpc EXCEPT ![w] = "claim"] /\ UNCHANGED wj
       ELSE IF MinR2(Locations, AlternativeSites(spacegroup, cell), wi[w], wj[w])
                 < kMaxDistance * kMaxDistance
       THEN wpc' = [wpc EXCEPT ![w] = "lock"] /\ UNCHANGED wj
       ELSE wj' = [wj EXCEPT ![w] = @ + 1] /\ UNCHANGED wpc
    /\ UNCHANGED <<cpc, wN, next, wi, lock, bdist, dmCrystal>>

\* lock_guard<mutex> lock(m)
Lock(w) ==
    /\ BuildOnly
    /\ wpc[w] = "lock"
    /\ lock = NoWorker
    /\ lock' = w
    /\ wpc' = [wpc EXCEPT ![w] = "insert"]
    /\ UNCHANGED <<cpc, wN, next, wi, wj, bdist, dmCrystal>>

\* dist[k] = d; the lock_guard goes out of scope; ++j
Insert(w) ==
    /\ BuildOnly
    /\ wpc[w] = "insert"
    /\ bdist' = [k \in DOMAIN bdist \cup {<<wi[w], wj[w]>>} |->
                    IF k = <<wi[w], wj[w]>>
                    THEN Sqrt(MinR2(Locations, AlternativeSites(spacegroup, cell),
                                    wi[w], wj[w]))
                    ELSE bdist[k]]
    /\ lock' = NoWorker
    /\ wj' = [wj EXCEPT ![w] = @ + 1]
    /\ wpc' = [wpc EXCEPT ![w] = "scan"]
    /\ UNCHANGED <<cpc, wN, next, wi, dmCrystal>>

\* t.join_all() returns and with it the constructor
Join ==
    /\ BuildOnly
    /\ cpc = "create" /\ Len(wpc) = wN
    /\ \A w \in DOMAIN wpc : wpc[w] = "done"
    /\ cpc' = "returned"
    /\ dmCrystal' = [built |-> TRUE,
                     index |-> BuildIndex(mAtoms, 1, EmptyMap),
                     dim   |-> Len(mAtoms),
                     dist  |-> bdist]
    /\ UNCHANGED <<wN, next, wpc, wi, wj, lock, bdist>>

WorkerStep == \E w \in DOMAIN wpc : Claim(w) \/ ScanPair(w) \/ Lock(w) \/ Insert(w)

BuildNext == CreateThread \/ WorkerStep \/ Join \/ DoQuery

(***************************************************************************)
(* align_points.  Points have whole coordinates.  A quaternion is kept as   *)
(* a 4-tuple of integers <<a, b, c, d>> that stands for the unit quaternion *)
(* of its direction, (a, b, c, d) / sqrt(a*a + b*b + c*c + d*d); with whole *)
(* coordinates every sum and product of align_points is exact.              *)
(***************************************************************************)
MaxCoord == 1

QNorm2(q) == q[1] * q[1] + q[2] * q[2] + q[3] * q[3] + q[4] * q[4]

\* point::rotate: p becomes q p q* for the unit quaternion q stands for
rotate(p, q) ==
    LET a == q[1]
        b == q[2]
        c == q[3]
        d == q[4]
        n == QNorm2(q)
    IN  << ((a * a + b * b - c * c - d * d) * p[1] + 2 * (b * c - a * d) * p[2]
              + 2 * (b * d + a * c) * p[3]) \div n,
           (2 * (b * c + a * d) * p[1] + (a * a - b * b + c * c - d * d) * p[2]
              + 2 * (c * d - a * b) * p[3]) \div n,
           (2 * (b * d - a * c) * p[1] + 2 * (c * d + a * b) * p[2]
              + (a * a - b * b - c * c + d * d) * p[3]) \div n >>

\* M(i, j): the sum over the points of pa[k][i] * pb[k][j]
RECURSIVE SumProducts(_, _, _, _, _)
SumProducts(A, B, i, j, k) ==
    IF k > Len(A) THEN 0
    ELSE A[k][i + 1] * B[k][j + 1] + SumProducts(A, B, i, j, k + 1)

ProductMatrix(A, B) ==
    [i \in 0..2 |-> [j \in 0..2 |-> SumProducts(A, B, i, j, 1)]]

\* the symmetric 4x4 matrix N
SymmetricN(M) ==
    LET upper(r, c) ==
            CASE r = 0 /\ c = 0 -> M[0][0] + M[1][1] + M[2][2]
              [] r = 0 /\ c = 1 -> M[1][2] - M[2][1]
              [] r = 0 /\ c = 2 -> M[2][0] - M[0][2]
              [] r = 0 /\ c = 3 -> M[0][1] - M[1][0]
              [] r = 1 /\ c = 1 -> M[0][0] - M[1][1] - M[2][2]
              [] r = 1 /\ c = 2 -> M[0][1] + M[1][0]
              [] r = 1 /\ c = 3 -> M[0][2] + M[2][0]
              [] r = 2 /\ c = 2 -> -M[0][0] + M[1][1] - M[2][2]
              [] r = 2 /\ c = 3 -> M[1][2] + M[2][1]
              [] r = 3 /\ c = 3 -> -M[0][0] - M[1][1] + M[2][2]
    IN  [r \in 0..3 |-> [c \in 0..3 |-> IF r <= c THEN upper(r, c) ELSE upper(c, r)]]

QuarticC(M) ==
    -2 * (M[0][0] * M[0][0] + M[0][1] * M[0][1] + M[0][2] * M[0][2] +
          M[1][0] * M[1][0] + M[1][1] * M[1][1] + M[1][2] * M[1][2] +
          M[2][0] * M[2][0] + M[2][1] * M[2][1] + M[2][2] * M[2][2])

QuarticD(M) ==
    8 * (M[0][0] * M[1][2] * M[2][1] + M[1][1] * M[2][0] * M[0][2] +
         M[2][2] * M[0][1] * M[1][0]) -
    8 * (M[0][0] * M[1][1] * M[2][2] + M[1][2] * M[2][0] * M[0][1] +
         M[2][1] * M[1][0] * M[0][2])

\* E is the determinant of N
QuarticE(N) ==
    (N[0][0] * N[1][1] - N[0][1] * N[0][1]) * (N[2][2] * N[3][3] - N[2][3] * N[2][3]) +
    (N[0][1] * N[0][2] - N[0][0] * N[2][1]) * (N[2][1] * N[3][3] - N[2][3] * N[1][3]) +
    (N[0][0] * N[1][3] - N[0][1] * N[0][3]) * (N[2][1] * N[2][3] - N[2][2] * N[1][3]) +
    (N[0][1] * N[2][1] - N[1][1] * N[0][2]) * (N[0][2] * N[3][3] - N[2][3] * N[0][3]) +
    (N[1][1] * N[0][3] - N[0][1] * N[1][3]) * (N[0][2] * N[2][3] - N[2][2] * N[0][3]) +
    (N[0][2] * N[1][3] - N[2][1] * N[0][3]) * (N[0][2] * N[1][3] - N[2][1] * N[0][3])

Quartic(x, a, b, c) == x * x * x * x + a * x * x + b * x + c

\* a bound on the size of the roots of x^4 + a x^2 + b x + c: twice the least
\* K with K^2 >= |a|, K^3 >= |b| and K^4 >= |c|
RECURSIVE RootBound(_, _, _, _)
RootBound(a, b, c, K) ==
    IF K * K >= Abs(a) /\ K * K * K >= Abs(b) /\ K * K * K * K >= Abs(c) THEN 2 * K
    ELSE RootBound(a, b, c, K + 1)

\* LargestDepressedQuarticSolution: the largest real solution of
\* x^4 + a x^2 + b x + c = 0, which Ferrari's formulas compute.  For whole
\* points and the rotations of QRot it is the whole number sum of |a_k|^2.
RECURSIVE LargestRootFrom(_, _, _, _, _)
LargestRootFrom(a, b, c, x, low) ==
    IF x < low \/ Quartic(x, a, b, c) = 0 THEN x
    ELSE LargestRootFrom(a, b, c, x - 1, low)

LargestDepressedQuarticSolution(a, b, c) ==
    Bind(RootBound(a, b, c, 0), LAMBDA R : LargestRootFrom(a, b, c, R, -R))

\* Matrix t = N - IdentityMatrix(4) * lambda
MinusLambda(N, lambda) ==
    [r \in 0..3 |-> [c \in 0..3 |-> IF r = c THEN N[r][c] - lambda ELSE N[r][c]]]

ixs == << <<1, 2, 3>>, <<0, 2, 3>>, <<0, 1, 3>>, <<0, 1, 2>> >>

Cofactors(m) ==
    [x \in 0..3 |-> [y \in 0..3 |->
        LET ix == ixs[x + 1]
            iy == ixs[y + 1]
            v  == m[ix[1]][iy[1]] * m[ix[2]][iy[2]] * m[ix[3]][iy[3]] +
                  m[ix[1]][iy[2]] * m[ix[2]][iy[3]] * m[ix[3]][iy[1]] +
                  m[ix[1]][iy[3]] * m[ix[2]][iy[1]] * m[ix[3]][iy[2]] -
                  m[ix[1]][iy[3]] * m[ix[2]][iy[2]] * m[ix[3]][iy[1]] -
                  m[ix[1]][iy[2]] * m[ix[2]][iy[1]] * m[ix[3]][iy[3]] -
                  m[ix[1]][iy[1]] * m[ix[2]][iy[3]] * m[ix[3]][iy[2]]
        IN  IF (x + y) % 2 = 1 THEN -v ELSE v]]

\* int maxR = 0; for (r = 1; r < 4; ++r) if (|cf(r, 0)| > |cf(maxR, 0)|) maxR = r;
RECURSIVE MaxRow(_, _, _)
MaxRow(cf, r, maxR) ==
    IF r >= 4 THEN maxR
    ELSE MaxRow(cf, r + 1, IF Abs(cf[r][0]) > Abs(cf[maxR][0]) THEN r ELSE maxR)

\* normalize: q / length when length > 0.001, else the quaternion (1, 0, 0, 0);
\* a tuple of whole numbers is longer than 0.001 unless it is zero
normalize(q) == IF \E k \in 1..4 : q[k] # 0 THEN q ELSE <<1, 0, 0, 0>>

\* The doubles of cf carry rounding errors (lambda is computed with square
\* and cube roots): among rows whose entries in column 0 are equal in size in
\* exact arithmetic the comparisons can select any.
TiedRows(cf) == {r \in 0..3 : Abs(cf[r][0]) = Abs(cf[MaxRow(cf, 1, 0)][0])}

\* the quaternions align_points can return for the point sets A and B
align_points(A, B) ==
    Bind(ProductMatrix(A, B), LAMBDA M :
      Bind(SymmetricN(M), LAMBDA N :
        Bind(LargestDepressedQuarticSolution(QuarticC(M), QuarticD(M), QuarticE(N)),
             LAMBDA lambda :
          Bind(Cofactors(MinusLambda(N, lambda)), LAMBDA cf :
            {normalize(<<cf[maxR][0], cf[maxR][1], cf[maxR][2], cf[maxR][3]>>) :
                maxR \in TiedRows(cf)}))))

\* Inputs: centred sets of three points that are not on one line, and the
\* quaternions of the 24 rotations that map whole points to whole points
(***************************************************************************)
(* Atom and AtomImpl: an Atom is a handle on a reference-counted AtomImpl  *)
(***************************************************************************)
MaxHandles == 3
MaxImpls   == 3

NoAtom == 0

\* new AtomImpl(...) with the members its constructor sets
NewImpl(all, refcount, clone, symmetryCopy) ==
    Append(all, [mRefcount |-> refcount, mClone |-> clone,
                 mSymmetryCopy |-> symmetryCopy, deleted |-> FALSE])

\* AtomImpl::reference
reference(all, i) == [all EXCEPT ![i].mRefcount = @ + 1]

\* AtomImpl::release: if (--mRefcount < 0) delete this
release(all, i) ==
    [all EXCEPT ![i].mRefcount = @ - 1,
                ![i].deleted   = @ \/ all[i].mRefcount - 1 < 0]

AtomIdle == impls = <<>> /\ handles = <<>>

AtomInit == impls = <<>> /\ handles = [h \in 1..MaxHandles |-> NoAtom]

\* Atom(new AtomImpl(f, id, row)), as Structure's constructor does
NewAtom(h) ==
    /\ AtomOnly
    /\ handles[h] = NoAtom /\ Len(impls) < MaxImpls
    /\ impls' = NewImpl(impls, 1, FALSE, FALSE)
    /\ handles' = [handles EXCEPT ![h] = Len(impls) + 1]

\* Atom::Atom(const Atom& rhs)
CopyAtom(h, rhs) ==
    /\ AtomOnly
    /\ handles[h] = NoAtom /\ handles[rhs] # NoAtom
    /\ impls' = reference(impls, handles[rhs])
    /\ handles' = [handles EXCEPT ![h] = handles[rhs]]

\* Atom::operator=(const Atom& rhs), this != &rhs
AssignAtom(h, rhs) ==
    /\ AtomOnly
    /\ h # rhs /\ handles[h] # NoAtom /\ handles[rhs] # NoAtom
    /\ impls' = reference(release(impls, handles[h]), handles[rhs])
    /\ handles' = [handles EXCEPT ![h] = handles[rhs]]

\* Atom::clone: Atom(new AtomImpl(*mImpl)), whose mRefcount is 1 and mClone true
CloneAtom(h, rhs) ==
    /\ AtomOnly
    /\ handles[h] = NoAtom /\ handles[rhs] # NoAtom /\ Len(impls) < MaxImpls
    /\ impls' = NewImpl(impls, 1, TRUE, FALSE)
    /\ handles' = [handles EXCEPT ![h] = Len(impls) + 1]

\* Atom::symmetryCopy: Atom(new AtomImpl(*mImpl, d, rt)), whose mRefcount is
\* impl.mRefcount
SymmetryCopyAtom(h, rhs) ==
    /\ AtomOnly
    /\ handles[h] = NoAtom /\ handles[rhs] # NoAtom /\ Len(impls) < MaxImpls
    /\ impls' = NewImpl(impls, impls[handles[rhs]].mRefcount, FALSE, TRUE)
    /\ handles' = [handles EXCEPT ![h] = Len(impls) + 1]

\* Atom::~Atom
DestroyAtom(h) ==
    /\ AtomOnly
    /\ handles[h] # NoAtom
    /\ impls' = release(impls, handles[h])
    /\ handles' = [handles EXCEPT ![h] = NoAtom]

AtomNext ==
    \E h \in 1..MaxHandles :
        \/ NewAtom(h)
        \/ DestroyAtom(h)
        \/ \E rhs \in 1..MaxHandles :
              \/ CopyAtom(h, rhs) \/ AssignAtom(h, rhs)
              \/ CloneAtom(h, rhs) \/ SymmetryCopyAtom(h, rhs)

(***************************************************************************)
(* Polymer::Distance                                                       *)
(***************************************************************************)
MaxMonomers == 3

INT_MAX == 2147483647

AsymIDs == {"A", "B"}
SeqIDs  == 1..(MaxMonomers + 1)

\* the sequences of distinct seq ids of length n
RECURSIVE Chains(_)
Chains(n) ==
    IF n = 0 THEN {<<>>}
    ELSE {Append(c, x) : <<c, x>> \in
            {y \in Chains(n - 1) \X SeqIDs : \A k \in DOMAIN y[1] : y[1][k] # y[2]}}

\* for (auto& m: *this) { ... }, from the k-th monomer on; st holds the locals
\* ixa, ixb, ix and f.  The body does not change ix.
RECURSIVE DistanceLoop(_, _, _, _, _)
DistanceLoop(poly, k, st, a, b) ==
    IF k > Len(poly) THEN INT_MAX
    ELSE Bind([st EXCEPT
                 !.ixa = IF poly[k] = a.seqID THEN st.ix ELSE @,
                 !.ixb = IF poly[k] = b.seqID THEN st.ix ELSE @,
                 !.f   = @ + (IF poly[k] = a.seqID THEN 1 ELSE 0)
                           + (IF poly[k] = b.seqID THEN 1 ELSE 0)],
              LAMBDA t : IF t.f = 2 THEN Abs(t.ixa - t.ixb)
                         ELSE DistanceLoop(poly, k + 1, t, a, b))

\* Polymer::Distance
PolymerDistance(poly, a, b) ==
    IF a.asymID = b.asymID
    THEN DistanceLoop(poly, 1, [ixa |-> INT_MAX, ixb |-> INT_MAX, ix |-> 0, f |-> 0], a, b)
    ELSE INT_MAX

PolyIdle == ppc = "idle" /\ polymer = <<>> /\ monA = <<>> /\ monB = <<>> /\ distResult = 0

PolyInit ==
    /\ ppc = "call"
    /\ polymer \in UNION {Chains(n) : n \in 0..MaxMonomers}
    /\ monA \in [asymID : AsymIDs, seqID : SeqIDs]
    /\ monB \in [asymID : AsymIDs, seqID : SeqIDs]
    /\ distResult = 0

CallDistance ==
    /\ PolyOnly
    /\ ppc = "call"
    /\ ppc' = "returned"
    /\ distResult' = PolymerDistance(polymer, monA, monB)
    /\ UNCHANGED <<polymer, monA, monB>>

PolyNext == CallDistance

(***************************************************************************)
(* Structure: sortAtoms and removeAtom                                     *)
(***************************************************************************)
MaxAtomSites == 3

DigitChars == <<"0", "1", "2", "3", "4", "5", "6", "7", "8", "9">>

\* std::to_string of a non-negative int
RECURSIVE to_string(_)
to_string(n) ==
    IF n < 10 THEN <<DigitChars[n + 1]>>
    ELSE to_string(n \div 10) \o <<DigitChars[(n % 10) + 1]>>

\* the ids an atom_site row can have in the file
FileIds == (1..MaxAtomSites) \cup {10}

NoArg == [impl |-> 0, id |-> <<>>, key |-> 0]

\* Atom::operator==: the same AtomImpl, or the same file and the same mId
AtomEq(a, b) == a.impl = b.impl \/ a.id = b.id

\* a.compare(b) < 0; key stands for (mAsymID, mSeqID, mAtomID)
AtomBefore(a, b) == a.key < b.key

RECURSIVE InsertAtom(_, _)
InsertAtom(seq, e) ==
    IF seq = <<>> THEN <<e>>
    ELSE IF AtomBefore(e, Head(seq)) THEN <<e>> \o seq
    ELSE <<Head(seq)>> \o InsertAtom(Tail(seq), e)

\* sort(mAtoms.begin(), mAtoms.end(), ...) of atoms with distinct keys
RECURSIVE SortedAtoms(_)
SortedAtoms(seq) ==
    IF seq = <<>> THEN <<>>
    ELSE InsertAtom(SortedAtoms(SubSeq(seq, 1, Len(seq) - 1)), seq[Len(seq)])

\* the loop of sortAtoms: atom.setID(id) sets mImpl->mId = to_string(id)
Renumbered(seq) == [k \in DOMAIN seq |-> [seq[k] EXCEPT !.id = to_string(k)]]

\* the loop of removeAtom over atom_site: erase the first row whose id is id
RECURSIVE EraseRow(_, _)
EraseRow(rows, id) ==
    IF rows = <<>> THEN <<>>
    ELSE IF Head(rows).id = id THEN Tail(rows)
    ELSE <<Head(rows)>> \o EraseRow(Tail(rows), id)

\* Structure::getAtomById over the stored mAtomIndex
AtomById(atoms, ix, id) ==
    Bind(lower_bound(atoms, ix, id, 1),
         LAMBDA i : IF i > Len(ix) \/ atoms[ix[i]].id # id
                    THEN [status |-> "out_of_range"]
                    ELSE [status |-> "ok", atom |-> atoms[ix[i]]])

StructIdle ==
    atomSites = <<>> /\ structAtoms = <<>> /\ mAtomIndex = <<>> /\ removeArg = NoArg

\* Structure::Structure(File&, modelNr): one Atom per row of atom_site, with
\* the row's id; then loadData calls updateAtomIndex
StructInit ==
    /\ \E n \in 1..MaxAtomSites :
         \E ids \in [1..n -> FileIds], keys \in [1..n -> 1..n] :
            /\ \A i, j \in 1..n : i # j => ids[i] # ids[j] /\ keys[i] # keys[j]
            /\ atomSites = [r \in 1..n |-> [row |-> r, id |-> to_string(ids[r])]]
            /\ structAtoms = [r \in 1..n |->
                                [impl |-> r, id |-> to_string(ids[r]), key |-> keys[r]]]
    /\ mAtomIndex = updateAtomIndex(structAtoms)
    /\ removeArg = NoArg

\* Structure::sortAtoms
SortAtoms ==
    /\ StructOnly
    /\ structAtoms' = Renumbered(SortedAtoms(structAtoms))
    /\ mAtomIndex' = updateAtomIndex(structAtoms')
    /\ UNCHANGED <<atomSites, removeArg>>

\* Structure::removeAtom(a), a an atom of the structure
RemoveAtom(k) ==
    /\ StructOnly
    /\ k \in DOMAIN structAtoms
    /\ removeArg' = structAtoms[k]
    /\ atomSites' = EraseRow(atomSites, structAtoms[k].id)
    /\ structAtoms' = SelectSeq(structAtoms, LAMBDA x : ~AtomEq(x, structAtoms[k]))
    /\ mAtomIndex' = updateAtomIndex(structAtoms')

StructNext == SortAtoms \/ \E k \in 1..MaxAtomSites : RemoveAtom(k)

Cube == {<<x, y, z>> : x \in -MaxCoord..MaxCoord, y \in -MaxCoord..MaxCoord,
                       z \in -MaxCoord..MaxCoord}

Collinear(p, q) ==
    /\ p[2] * q[3] = p[3] * q[2]
    /\ p[3] * q[1] = p[1] * q[3]
    /\ p[1] * q[2] = p[2] * q[1]

PointSets ==
    {<<p, q, <<-p[1] - q[1], -p[2] - q[2], -p[3] - q[3]>>>> :
        <<p, q>> \in {pq \in Cube \X Cube : SeqLess(pq[1], pq[2]) /\ ~Collinear(pq[1], pq[2])}}

QRot ==
    {q \in {<<a, b, c, d>> : a \in {-1, 0, 1}, b \in {-1, 0, 1}, c \in {-1, 0, 1}, d \in {-1, 0, 1}} :
        /\ QNorm2(q) \in {1, 2, 4}
        /\ SeqLess(<<0, 0, 0, 0>>, q)}

AlignIdle == pa = <<>> /\ qrot = <<>> /\ pb = <<>> /\ aresult = <<>>

AlignInit ==
    /\ pa \in PointSets
    /\ qrot \in QRot
    /\ pb = <<>>
    /\ aresult = <<>>

\* every point of A is rotated by q
DoRotate ==
    /\ AlignOnly
    /\ pb = <<>>
    /\ pb' = [k \in DOMAIN pa |-> rotate(pa[k], qrot)]
    /\ UNCHANGED <<pa, qrot, aresult>>

\* align_points(A, rotate(A, q))
DoAlign ==
    /\ AlignOnly
    /\ pb # <<>> /\ aresult = <<>>
    /\ aresult' \in align_points(pa, pb)
    /\ UNCHANGED <<pa, qrot, pb>>

AlignNext == DoRotate \/ DoAlign

(***************************************************************************)
(* construct_for_dihedral_angle.  p1, p2 and p3 stay where they are and    *)
(* every rotation is about the axis p2 - p3, so p4 is known by its         *)
(* dihedral angle and a rotation by its angle about that axis; angles are  *)
(* whole degrees.                                                          *)
(***************************************************************************)
MaxTurn == 6
Unset   == -1

\* std::fmod(x, y): the remainder of the division truncated towards zero
fmod(x, y) == CRem(x, y)

\* an angle brought into (-180, 180]
Wrap180(x) == ((x + 179) % 360) - 179

\* delta = std::fmod(angle - dh, 360.0f) and the two corrections by 360
ShortestDelta(angle, d) ==
    LET d0 == fmod(angle - d, 360)
        d1 == IF d0 < -180 THEN d0 + 360 ELSE d0
    IN  IF d1 > 180 THEN d1 - 360 ELSE d1

\* std::abs(delta) < esd
WithinEsd(d, e) == Abs(d) < e

\* construct_from_angle_axis(angle, axis): q = cos(angle / 2) and
\* s = sqrt(1 - q * q), which is never negative, so the quaternion is the
\* rotation by |angle|
construct_from_angle_axis(angle) == Abs(angle) % 360

\* dihedral_angle(p1, p2, p3, p4) after p4.rotate(q2)
RotatedDihedral(d, rot, sense) == Wrap180(d + sense * rot)

FitIdle ==
    /\ fpc = "idle" /\ fitAngle = 0 /\ fitEsd = 0 /\ fitSense = 1 /\ fitDh = 0
    /\ fitIter = 0 /\ fitDelta = 0 /\ fitQ2 = Unset /\ fitQ = Unset

\* the call: quaternion q; float dh = dihedral_angle(p1, p2, p3, p4)
FitInit ==
    /\ fpc = "loop"
    /\ fitAngle \in {30 * k : k \in (-MaxTurn)..MaxTurn}
    /\ fitEsd \in {0, 1, 45}
    /\ fitSense \in {1, -1}
    /\ fitDh \in {30 * k : k \in -5..6}
    /\ fitIter = 0 /\ fitDelta = 0 /\ fitQ2 = Unset /\ fitQ = Unset

\* one pass of the loop that reaches its end
Pass ==
    /\ FitOnly
    /\ fpc = "loop" /\ fitIter < 100
    /\ fitDelta' = ShortestDelta(fitAngle, fitDh)
    /\ ~WithinEsd(fitDelta', fitEsd)
    /\ fitQ2' = construct_from_angle_axis(fitDelta')
    /\ fitQ' = IF fitIter = 0 THEN fitQ2' ELSE (fitQ + fitQ2') % 360
    /\ fitDh' = RotatedDihedral(fitDh, fitQ2', fitSense)
    /\ fitIter' = fitIter + 1
    /\ UNCHANGED <<fpc, fitAngle, fitEsd, fitSense>>

\* the pass that breaks
Break ==
    /\ FitOnly
    /\ fpc = "loop" /\ fitIter < 100
    /\ fitDelta' = ShortestDelta(fitAngle, fitDh)
    /\ WithinEsd(fitDelta', fitEsd)
    /\ fpc' = "returned"
    /\ UNCHANGED <<fitAngle, fitEsd, fitSense, fitDh, fitIter, fitQ2, fitQ>>

\* iteration < 100 fails
Exhausted ==
    /\ FitOnly
    /\ fpc = "loop" /\ fitIter >= 100
    /\ fpc' = "returned"
    /\ UNCHANGED <<fitAngle, fitEsd, fitSense, fitDh, fitIter, fitDelta, fitQ2, fitQ>>

FitNext == Pass \/ Break \/ Exhausted
(***************************************************************************)
(* Specifications: one per component, the other components idle            *)
(***************************************************************************)
InitParse == ParserInit /\ MoveIdle /\ MainIdle /\ DMIdle /\ AlignIdle /\ BuildIdle /\ FitIdle
               /\ AtomIdle /\ PolyIdle /\ StructIdle
InitMove  == ParserIdle /\ MoveInit /\ MainIdle /\ DMIdle /\ AlignIdle /\ BuildIdle /\ FitIdle
               /\ AtomIdle /\ PolyIdle /\ StructIdle
InitMain  == ParserIdle /\ MoveIdle /\ MainInit /\ DMIdle /\ AlignIdle /\ BuildIdle /\ FitIdle
               /\ AtomIdle /\ PolyIdle /\ StructIdle
InitDM    == ParserIdle /\ MoveIdle /\ MainIdle /\ DMInit /\ AlignIdle /\ BuildIdle /\ FitIdle
               /\ AtomIdle /\ PolyIdle /\ StructIdle
InitAlign == ParserIdle /\ MoveIdle /\ MainIdle /\ DMIdle /\ AlignInit /\ BuildIdle /\ FitIdle
               /\ AtomIdle /\ PolyIdle /\ StructIdle
InitEof   == ParserIdle /\ MoveIdle /\ EofInit /\ DMIdle /\ AlignIdle /\ BuildIdle /\ FitIdle
               /\ AtomIdle /\ PolyIdle /\ StructIdle

InitBuild == ParserIdle /\ MoveIdle /\ MainIdle /\ BuildInit /\ AlignIdle /\ FitIdle
               /\ AtomIdle /\ PolyIdle /\ StructIdle
InitFit   == ParserIdle /\ MoveIdle /\ MainIdle /\ DMIdle /\ AlignIdle /\ BuildIdle /\ FitInit
               /\ AtomIdle /\ PolyIdle /\ StructIdle
InitAtom  == ParserIdle /\ MoveIdle /\ MainIdle /\ DMIdle /\ AlignIdle /\ BuildIdle /\ FitIdle
               /\ AtomInit /\ PolyIdle /\ StructIdle
InitPoly  == ParserIdle /\ MoveIdle /\ MainIdle /\ DMIdle /\ AlignIdle /\ BuildIdle /\ FitIdle
               /\ AtomIdle /\ PolyInit /\ StructIdle
InitStruct == ParserIdle /\ MoveIdle /\ MainIdle /\ DMIdle /\ AlignIdle /\ BuildIdle /\ FitIdle
               /\ AtomIdle /\ PolyIdle /\ StructInit

SpecParse == InitParse /\ [][ParserNext]_vars
SpecMove  == InitMove /\ [][MoveNext]_vars
SpecMain  == InitMain /\ [][MainNext]_vars
SpecDM    == InitDM /\ [][DMNext]_vars
SpecAlign == InitAlign /\ [][AlignNext]_vars
SpecEof   == InitEof /\ [][EofNext]_vars
SpecBuild == InitBuild /\ [][BuildNext]_vars
SpecFit   == InitFit /\ [][FitNext]_vars
SpecAtom  == InitAtom /\ [][AtomNext]_vars
SpecPoly  == InitPoly /\ [][PolyNext]_vars
SpecStruct == InitStruct /\ [][StructNext]_vars

(***************************************************************************)
(* Properties of the parser                                                *)
(***************************************************************************)
Parsed == presult.status # "none"

Rot(op, r, c) == op[(r - 1) * 3 + c]

\* C1: parse("1/2+x,-y,1/2-z") returns the rotation diag(1,-1,-1) and the
\* translation rows (1,2), (0,0), (1,2).
C1_ParseExample ==
    (Parsed /\ text = Example) =>
        presult = [status |-> "ok",
                   op |-> <<1, 0, 0, 0, -1, 0, 0, 0, -1, 1, 2, 0, 0, 1, 2>>]

C1_Witness == text = Example /\ presult.status = "ok"

\* C2 as stated: every operator parse returns has exactly one nonzero
\* rotation entry in each row and in each column, every entry -1, 0 or 1.
C2_RotationIsSignedPermutation ==
    presult.status = "ok" =>
        /\ \A k \in 1..9 : presult.op[k] \in {-1, 0, 1}
        /\ \A r \in 1..3 : Cardinality({c \in 1..3 : Rot(presult.op, r, c) # 0}) = 1
        /\ \A c \in 1..3 : Cardinality({r \in 1..3 : Rot(presult.op, r, c) # 0}) = 1

\* C2 as amended: every operator parse returns has all nine rotation entries
\* in {-1, 0, 1}.
C2_RotationEntries ==
    presult.status = "ok" => \A k \in 1..9 : presult.op[k] \in {-1, 0, 1}

\* a returned operator with a translation and a row holding two axis terms
C2_Witness ==
    /\ presult.status = "ok"
    /\ presult.op[10] # 0
    /\ \E r \in 1..3 : Cardinality({c \in 1..3 : Rot(presult.op, r, c) # 0}) = 2

(***************************************************************************)
(* Properties of move_symop                                                *)
(***************************************************************************)
ZeroTranslation(op) == \A k \in 10..15 : op[k] = 0

\* C3: move_symop(s, c) with a centering operator c whose translation rows
\* are all zero returns s unchanged in all 15 components.
C3_IdentityCentering ==
    (mresult.status # "none" /\ ZeroTranslation(cenop)) =>
        mresult = [status |-> "ok", op |-> symop]

C3_Witness ==
    /\ mresult.status = "ok"
    /\ ZeroTranslation(cenop)
    /\ symop[10] # 0 /\ symop[12] < 0

\* n and d have no common divisor above 1
LowestTerms(n, d) == \A j \in 2..Abs(d) : ~(n % j = 0 /\ d % j = 0)

\* C14: every translation row of an operator entry - a result of move_symop
\* for a parsed symop and a parsed cenop - is the no-offset marker (0,0) or a
\* fraction (n,d) with 0 < n < d, in lowest terms, with d between 1 and 6.
C14_TranslationRows ==
    mresult.status = "ok" =>
        \A k \in {10, 12, 14} :
            LET n == mresult.op[k]
                d == mresult.op[k + 1]
            IN  \/ n = 0 /\ d = 0
                \/ 0 < n /\ n < d /\ d \in 1..6 /\ LowestTerms(n, d)

\* the fraction n/d is a whole number more or less than sn/sd + cn/cd, where a
\* row <<0, 0>> stands for 0 (the denominators are made 1)
ModOneOfSum(n, d, sn, sd, cn, cd) ==
    LET D(x)  == IF x = 0 THEN 1 ELSE x
        diff  == n * D(sd) * D(cd) - sn * D(d) * D(cd) - cn * D(d) * D(sd)
    IN  diff % Abs(D(d) * D(sd) * D(cd)) = 0

\* C17: each translation row of the result of move_symop is the sum of the
\* primary and the centering fraction modulo 1 - it lies in [0,1), with (0,0)
\* for 0, and differs from the exact sum by an integer - and the nine rotation
\* entries are those of the primary operator.
C17_SumModuloOne ==
    mresult.status = "ok" =>
        /\ \A k \in 1..9 : mresult.op[k] = symop[k]
        /\ \A k \in {10, 12, 14} :
              LET n == mresult.op[k]
                  d == mresult.op[k + 1]
              IN  /\ (n = 0 /\ d = 0) \/ (d > 0 /\ 0 <= n /\ n < d)
                  /\ ModOneOfSum(n, d, symop[k], symop[k + 1], cenop[k], cenop[k + 1])

\* a scan of the text character by character against the grammar
\*   part := ['+'|'-'] term (('+'|'-') term)*      term := axis | digit '/' digit
\* for three parts separated by commas, blanks skipped.  q is what the scan
\* has just read: "start" (nothing of the part yet), "sign", "num" (a
\* numerator), "slash", "term" (a complete term).
IsAxis(ch) == ch \in {"x", "y", "z", "X", "Y", "Z"}
IsSign(ch) == ch \in {"+", "-"}
IsNum(ch)  == ch \in {"0", "1", "2", "3", "4", "5", "6", "7", "8", "9"}

RECURSIVE Scan(_, _, _, _)
Scan(s, i, q, part) ==
    IF i > Len(s) THEN "end"
    ELSE LET ch == s[i] IN
         IF ch = " " THEN Scan(s, i + 1, q, part)
         ELSE CASE q = "start" ->
                     IF IsSign(ch) THEN Scan(s, i + 1, "sign", part)
                     ELSE IF IsNum(ch) THEN Scan(s, i + 1, "num", part)
                     ELSE IF IsAxis(ch) THEN Scan(s, i + 1, "term", part)
                     ELSE "unexpected"
                [] q = "sign" ->
                     IF IsNum(ch) THEN Scan(s, i + 1, "num", part)
                     ELSE IF IsAxis(ch) THEN Scan(s, i + 1, "term", part)
                     ELSE "unexpected"
                [] q = "num" ->
                     IF ch = "/" THEN Scan(s, i + 1, "slash", part)
                     ELSE IF IsNum(ch) THEN "digits"
                     ELSE "unexpected"
                [] q = "slash" ->
                     IF IsNum(ch) THEN Scan(s, i + 1, "term", part)
                     ELSE "unexpected"
                [] q = "term" ->
                     IF IsSign(ch) THEN Scan(s, i + 1, "sign", part)
                     ELSE IF ch = "," /\ part < 3 THEN Scan(s, i + 1, "start", part + 1)
                     ELSE IF part = 3 THEN "trailing"
                     ELSE IF IsNum(ch) /\ IsNum(s[i - 1]) THEN "digits"
                     ELSE "unexpected"

\* the three kinds of malformed text of the claim
Malformed(s) == Scan(s, 1, "start", 1) \in {"unexpected", "trailing", "digits"}

\* C4: parse raises an error and returns no operator for every text in which
\* an unexpected character stands where a token is required, in which
\* characters remain after the third part, or in which a numerator or
\* denominator has more than one digit.
C4_MalformedRaisesError ==
    (Parsed /\ Malformed(text)) => presult.status = "error"

\* C5: inserting a whitespace character (space or tab) between the tokens of
\* an expression that parses gives an expression that parses to the same
\* operator.
C5_WhitespaceInsignificant ==
    (Parsed /\ lastIns.ch \in {" ", TAB}
       /\ parse(RemoveAt(text, lastIns.pos)).status = "ok") =>
        /\ presult.status = "ok"
        /\ presult.op = parse(RemoveAt(text, lastIns.pos)).op

(***************************************************************************)
(* Properties of the generator run                                         *)
(***************************************************************************)
ParseFailed == pc = "exit" /\ (exc = "Unexpected character" \/ exitStatus = 134)

Unpublished == destFile \in {FileAbsent, FilePrevious}

\* C6: when a symop or cenop line fails to parse the run publishes nothing:
\* the destination is left as it was; the destination changes only in the
\* step that follows the last line, and then to the whole sorted table.
C6_NoPublishOnParseError ==
    /\ [](exc = "Unexpected character" \/ exitStatus = 134 => Unpublished)
    /\ [][destFile' # destFile =>
            /\ pc = "read" /\ pc' = "exit" /\ exc' = ""
            /\ data' = Sort(data, "data")
            /\ destFile' = Table(data', symInfo)]_vars

\* a parse error in a later block, after a block was composed
C6_Witness ==
    /\ pc = "exit" /\ exc = "Unexpected character"
    /\ data # <<>> /\ state = "spacegroup"
    /\ destFile = FilePrevious

\* C7: when an exception occurs during the run the tool reports it and the
\* process ends with a non-zero exit status.
C7_ErrorExitStatus ==
    (pc = "exit" /\ exc # "") => (reported /\ exitStatus # 0)

\* C15: the operators a block composes are numbered 1, 2, 3, ... without
\* gaps, centering operators in the outer loop and primary operators in the
\* inner one, both in input order: the step that ends a block with S symops
\* appends, for the c-th cenop and the s-th symop, the row with the number
\* (c-1)*S + s at that place behind the rows of the earlier blocks.
C15_OperatorNumbering ==
    [][(pc = "read" /\ state = "spacegroup" /\ state' = "skip") =>
          LET S == Len(symops)
              C == Len(cenops)
          IN  /\ Len(data') = Len(data) + C * S
              /\ \A c \in 1..C, s \in 1..S :
                    data'[Len(data) + (c - 1) * S + s] =
                        <<cur.nr, (c - 1) * S + s, move_symop(symops[s], cenops[c]).op>>]_vars

\* a block of two cenops and two symops was composed, and the operators of
\* the first cenop differ from those of the second
C15_Witness ==
    /\ pc = "read" /\ state = "skip"
    /\ Len(data) = 4
    /\ \A k \in 1..4 : data[k][2] = k
    /\ data[1][3] = data[2][3] /\ data[3][3] = data[4][3] /\ data[2][3] # data[3][3]

\* C26: in the emitted operator table no two rows have the same (space-group
\* id, operator number) key, also when two blocks declare the same `symbol
\* ccp4` number.
C26_UniqueKeys ==
    destFile.kind = "table" =>
        \A i \in DOMAIN destFile.table, j \in DOMAIN destFile.table :
            (destFile.table[i][1] = destFile.table[j][1]
               /\ destFile.table[i][2] = destFile.table[j][2]) => i = j

\* how often the row r occurs in seq
RowCount(seq, r) == Cardinality({k \in DOMAIN seq : seq[k] = r})

\* the step that reads end_spacegroup and closes the block
ClosesBlock == pc = "read" /\ state = "spacegroup" /\ state' = "skip"

\* C30: the step that closes a block appends exactly (number of cenops) x
\* (number of symops) entries under the id of the block - none when the block
\* has no cenop - and empties both accumulators, which are empty whenever a
\* block can begin; no other step adds or removes an entry, so a block that is
\* never closed contributes nothing.
C30_EntriesPerBlock ==
    /\ [](state = "skip" => symops = <<>> /\ cenops = <<>>)
    /\ [][/\ ClosesBlock =>
               /\ Len(data') = Len(data) + Len(cenops) * Len(symops)
               /\ SubSeq(data', 1, Len(data)) = data
               /\ \A k \in (Len(data) + 1)..Len(data') : data'[k][1] = cur.nr
               /\ cenops = <<>> => data' = data
          /\ ~ClosesBlock =>
               /\ Len(data') = Len(data)
               /\ \A k \in DOMAIN data : RowCount(data', data[k]) = RowCount(data, data[k])]_vars

\* one block with two entries was closed
C30_Witness ==
    /\ pc = "read" /\ state = "skip"
    /\ Cardinality(DOMAIN symInfo) = 1
    /\ Len(data) = 2

\* the non-zero ids a `symbol ccp4` line of the input declares
LegacyNrs == {l.nr : l \in {x \in Lines : x.kind = "ccp4"}} \ {0}

\* C18: a block without a legacy id has the synthetic id mysymnr, which is
\* above 10000 and above the synthetic id of every block read before it, so no
\* two such blocks share an id; the id of a block changes only to a non-zero
\* legacy id that a `symbol ccp4` line declares, a line with the value 0 leaves
\* it alone, and the block is entered under the id it then has.
C18_SyntheticIds ==
    /\ [](state = "spacegroup" =>
            /\ mysymnr > 10000
            /\ cur.nr = mysymnr \/ cur.nr \in LegacyNrs
            /\ \A id \in DOMAIN symInfo : id > 10000 => id < mysymnr
            /\ \A k \in DOMAIN data : data[k][1] > 10000 => data[k][1] < mysymnr)
    /\ [][/\ state = "spacegroup" /\ state' = "spacegroup" /\ cur'.nr # cur.nr
              => cur'.nr \in LegacyNrs /\ cur'.nr # 0
          /\ state = "skip" /\ state' = "spacegroup"
              => mysymnr' = mysymnr + 1 /\ cur'.nr = mysymnr'
          /\ state = "spacegroup" /\ state' = "skip" /\ pc' = "read"
              => /\ cur.nr \in DOMAIN symInfo'
                 /\ \A k \in (Len(data) + 1)..Len(data') : data'[k][1] = cur.nr
          /\ state' = state => mysymnr' = mysymnr]_vars

\* the third block has no legacy id; the first declared the legacy id 1 and
\* the second had none
C18_Witness ==
    /\ pc = "read" /\ state = "spacegroup"
    /\ cur.nr = 10003
    /\ DOMAIN symInfo = {1, 10002}

\* C16: the emitted operator table is in non-decreasing order of (space-group
\* id, operator number) and the emitted name index is in non-decreasing
\* lexicographic order of the alias.
C16_SortedOutput ==
    destFile.kind = "table" =>
        /\ \A i \in 1..(Len(destFile.table) - 1) :
              ~SeqLess(<<destFile.table[i + 1][1], destFile.table[i + 1][2]>>,
                       <<destFile.table[i][1], destFile.table[i][2]>>)
        /\ \A i \in 1..(Len(destFile.names) - 1) :
              ~StrLess(destFile.names[i + 1][1], destFile.names[i][1])

\* the first block got the id 10001 and the second the legacy id 1, with the
\* aliases z and x in this order: both tables had to be reordered
C16_Witness ==
    /\ destFile.kind = "table"
    /\ mysymnr = 10002
    /\ destFile.table[1][1] = 1
    /\ destFile.table[Len(destFile.table)][1] = 10001
    /\ destFile.names[1][1] = <<"x">> /\ destFile.names[1][2] = 1
    /\ \E i \in 2..Len(destFile.names) :
          destFile.names[i][1] = <<"z">> /\ destFile.names[i][2] = 1

(***************************************************************************)
(* Properties of the DistanceMap                                           *)
(***************************************************************************)
Indexed(dm, a) == a \in DOMAIN dm.index

\* the canonical (min-slot, max-slot) key of a pair of indexed atoms
PairKey(dm, a, b) ==
    <<SetMin({dm.index[a], dm.index[b]}), -SetMin({-dm.index[a], -dm.index[b]})>>

Cached(dm, a, b) == PairKey(dm, a, b) \in DOMAIN dm.dist

\* C8: for every pair of atoms a, b in the index, query(a,b) equals
\* query(b,a), whether the pair is cached or not.
C8_QuerySymmetric ==
    (qres # NoQuery /\ Indexed(TheMap(qres.map), qres.a) /\ Indexed(TheMap(qres.map), qres.b)) =>
        /\ qres.r.status = "ok"
        /\ qres.r = Query(TheMap(qres.map), qres.b, qres.a)

\* a cached pair asked with the later atom first
C8_Witness ==
    /\ qres # NoQuery /\ qres.r.status = "ok"
    /\ qres.a # qres.b
    /\ TheMap(qres.map).index[qres.a] > TheMap(qres.map).index[qres.b]
    /\ qres.r.value > 0 /\ qres.r.value < Sentinel

\* both maps built over the atoms of the structure
SameAtoms ==
    /\ dmPlain.built /\ dmCrystal.built
    /\ dmPlain.index = dmCrystal.index /\ dmPlain.dim = dmCrystal.dim

C10_NearExact ==
    (nres # NoQuery /\ Indexed(TheMap(nres.map), nres.a)) =>
        LET dm == TheMap(nres.map) IN
        /\ nres.r.status = "ok"
        /\ \A k \in DOMAIN nres.r.atoms : \E m \in DOMAIN mAtoms : nres.r.atoms[k] = mAtoms[m]
        /\ {nres.r.atoms[k].id : k \in DOMAIN nres.r.atoms} =
              {b \in DOMAIN dm.index \ {nres.a} :
                  /\ Cached(dm, nres.a, b)
                  /\ dm.dist[PairKey(dm, nres.a, b)] <= nres.maxDistance}

\* a radius met exactly by one atom and exceeded by another
C10_Witness ==
    /\ nres # NoQuery /\ nres.r.status = "ok"
    /\ Len(nres.r.atoms) = 1
    /\ Cardinality(DOMAIN TheMap(nres.map).index) = 3
    /\ Query(TheMap(nres.map), nres.a, nres.r.atoms[1].id).value = nres.maxDistance

\* C11: query(a,b) fails with an error when a or b is absent from the index;
\* for two indexed atoms it does not fail and returns the cached distance of
\* the pair when the pair is cached and the sentinel 100 when it is not.
C11_QueryErrors ==
    qres # NoQuery =>
        LET dm == TheMap(qres.map) IN
        IF ~Indexed(dm, qres.a) \/ ~Indexed(dm, qres.b)
        THEN qres.r.status = "runtime_error"
        ELSE /\ qres.r.status = "ok"
             /\ qres.r.value = IF Cached(dm, qres.a, qres.b)
                               THEN dm.dist[PairKey(dm, qres.a, qres.b)]
                               ELSE Sentinel

\* a query with an indexed first atom and a second atom absent from the index
C11_Witness ==
    /\ qres # NoQuery
    /\ Indexed(TheMap(qres.map), qres.a) /\ ~Indexed(TheMap(qres.map), qres.b)
    /\ qres.r.status = "runtime_error"

\* the scenario of C12: identity and inversion through the origin, a cubic
\* cell of edge 10, both maps built over the atoms of the structure
InversionScenario ==
    /\ SameAtoms
    /\ cell = <<10, 10, 10>>
    /\ spacegroup = << [rot |-> <<1, 1, 1>>, trn2 |-> <<0, 0, 0>>],
                       [rot |-> <<-1, -1, -1>>, trn2 |-> <<0, 0, 0>>] >>

\* C12: in that scenario, for atoms at (1,1,1) and (-1,-1,-1), the
\* crystal-mode map reports a distance of (near) 0 - at most 0.01 - and the
\* plain-mode map reports sqrt(12), rounded down to the distance unit.
C12_InversionScenario ==
    InversionScenario =>
        \A i \in DOMAIN mAtoms, j \in DOMAIN mAtoms :
            (mAtoms[i].loc = <<1, 1, 1>> /\ mAtoms[j].loc = <<-1, -1, -1>>) =>
                LET c == Query(dmCrystal, mAtoms[i].id, mAtoms[j].id)
                    p == Query(dmPlain, mAtoms[i].id, mAtoms[j].id)
                IN  /\ c.status = "ok" /\ p.status = "ok"
                    /\ c.value * 100 <= DistUnit
                    /\ p.value * p.value <= 12 * DistUnit * DistUnit
                    /\ 12 * DistUnit * DistUnit < (p.value + 1) * (p.value + 1)

\* the location of the atom of the structure with the id a
LocOf(a) == mAtoms[CHOOSE k \in DOMAIN mAtoms : mAtoms[k].id = a].loc

\* C19: after a build in either mode the cache holds an entry for a pair (i,j),
\* i < j, exactly when the distance of the pair - the minimum-image distance in
\* crystal mode - is below the cutoff 5.0.  (Plain mode: for a vector of
\* distinct atoms, whose slots are the positions in the vector.)
C19_CacheIffBelowCutoff ==
    /\ (dmPlain.built /\ Cardinality(DOMAIN dmPlain.index) = dmPlain.dim) =>
          \A a \in DOMAIN dmPlain.index, b \in DOMAIN dmPlain.index :
              dmPlain.index[a] < dmPlain.index[b] =>
                  (<<dmPlain.index[a], dmPlain.index[b]>> \in DOMAIN dmPlain.dist
                     <=> lengthsq(LocOf(a), LocOf(b)) < kMaxDistance * kMaxDistance)
    /\ dmCrystal.built =>
          \A k \in Pairs(Len(mAtoms)) :
              k \in DOMAIN dmCrystal.dist
                <=> MinR2([i \in 1..Len(mAtoms) |-> toCell(mAtoms[i].loc, cell)],
                          AlternativeSites(spacegroup, cell), k[1], k[2])
                      < kMaxDistance * kMaxDistance

\* C20: in crystal mode every atom position is wrapped into the unit cell
\* before the distances are computed: for every cell with positive edges a, b,
\* c the position toCell returns has 0 <= p[1] <= a, 0 <= p[2] <= b and
\* 0 <= p[3] <= c.
C20_ToCellWrapsIntoCell ==
    dmCrystal.built =>
        \A k \in DOMAIN mAtoms :
            LET p == toCell(mAtoms[k].loc, cell)
            IN  \A i \in 1..3 : 0 <= p[i] /\ p[i] <= cell[i]

\* the slots of the index of a map are exactly 0..dim-1 and every cache key
\* <<i, j>> has 0 <= i < j < dim
DenseIndex(dm) ==
    /\ {dm.index[a] : a \in DOMAIN dm.index} = 0..(dm.dim - 1)
    /\ \A k \in DOMAIN dm.dist : 0 <= k[1] /\ k[1] < k[2] /\ k[2] < dm.dim

\* C24: after a build over an atom list of length n the slots of the index are
\* exactly 0..n-1, one per atom in input order, and every cache key (i,j) has
\* 0 <= i < j < n.
C24_DenseSlots ==
    /\ dmPlain.built => DenseIndex(dmPlain)
    /\ dmCrystal.built =>
          /\ DenseIndex(dmCrystal)
          /\ \A k \in DOMAIN mAtoms : dmCrystal.index[mAtoms[k].id] = k - 1

\* C29: the pair of an atom with itself is never cached in either mode: for
\* every indexed atom a, query(a, a) returns the sentinel 100 and near(a, r)
\* never contains a.
C29_NoSelfPair ==
    /\ \A k \in DOMAIN dmPlain.dist \cup DOMAIN dmCrystal.dist : k[1] # k[2]
    /\ (qres # NoQuery /\ qres.a = qres.b /\ Indexed(TheMap(qres.map), qres.a)) =>
          qres.r = [status |-> "ok", value |-> Sentinel]
    /\ (nres # NoQuery /\ nres.r.status = "ok") =>
          \A k \in DOMAIN nres.r.atoms : nres.r.atoms[k].id # nres.a

\* a query of an atom against itself in a map whose cache holds distances
C29_Witness ==
    /\ qres # NoQuery /\ qres.a = qres.b
    /\ DOMAIN TheMap(qres.map).dist # {}
    /\ qres.r = [status |-> "ok", value |-> Sentinel]

(***************************************************************************)
(* Properties of the concurrent build                                      *)
(***************************************************************************)
\* the workers inside the mutex-protected insertion
Inserting == {w \in DOMAIN wpc : wpc[w] = "insert"}

\* C21: under every interleaving each outer index i is claimed from the atomic
\* counter by exactly one worker - a claim takes the value of next and leaves
\* next one higher, so the workers hold different i - a key is inserted once
\* and by the worker that owns its i, and at most one worker at a time is
\* inside the mutex-protected insertion.
C21_OneOwnerPerIndex ==
    /\ [](/\ \A v \in DOMAIN wi, w \in DOMAIN wi :
                 (v # w /\ wi[v] >= 0) => wi[v] # wi[w]
          /\ \A w \in DOMAIN wi : wi[w] < next
          /\ Cardinality(Inserting) <= 1
          /\ \A w \in Inserting : lock = w)
    /\ [][/\ \A w \in DOMAIN wi :
                wi'[w] # wi[w] => wi'[w] = next /\ next' = next + 1
          /\ bdist' # bdist =>
                \E w \in Inserting :
                    /\ <<wi[w], wj[w]>> \notin DOMAIN bdist
                    /\ DOMAIN bdist' = DOMAIN bdist \cup {<<wi[w], wj[w]>>}]_vars

\* one worker is inside the insertion for a key of its index while another
\* worker, which owns another index, waits for the mutex
C21_Witness ==
    \E v \in DOMAIN wpc, w \in DOMAIN wpc :
        /\ wpc[v] = "insert" /\ wpc[w] = "lock"
        /\ wi[v] # wi[w]
        /\ bdist # EmptyMap

\* C22: for every worker count N >= 0 the build ends and, when the constructor
\* has returned, every outer index i in [0,n) was processed: the cache is
\* complete and equal to the one a sequential computation (one worker)
\* produces; no query is served before that.
C22_CompleteAfterJoin ==
    /\ dmCrystal.built =>
          /\ cpc = "returned"
          /\ next >= Len(mAtoms)
          /\ dmCrystal.dist = CrystalMap(mAtoms, spacegroup, cell, 1).dist
    /\ qres # NoQuery => cpc = "returned"

(***************************************************************************)
(* Properties of construct_for_dihedral_angle                              *)
(***************************************************************************)
\* C23: construct_for_dihedral_angle returns after at most 100 passes; the
\* delta of every pass lies in [-180, 180]; it stops at the first pass whose
\* |delta| is below esd, and a pass that goes on rotates the fourth point by
\* delta about the axis p2 - p3 and multiplies that rotation onto the
\* accumulated quaternion.
C23_DihedralFit ==
    /\ [](fitIter <= 100)
    /\ [](-180 <= fitDelta /\ fitDelta <= 180)
    /\ [][fpc = "loop" /\ fitIter < 100 =>
            /\ Abs(fitDelta') < fitEsd => fpc' = "returned" /\ fitQ' = fitQ /\ fitDh' = fitDh
            /\ ~(Abs(fitDelta') < fitEsd) =>
                  /\ fpc' = "loop" /\ fitIter' = fitIter + 1
                  /\ (fitQ2' - fitDelta') % 360 = 0
                  /\ fitQ' = IF fitIter = 0 THEN fitQ2' ELSE (fitQ + fitQ2') % 360]_vars

(***************************************************************************)
(* Properties of the Atom handles                                          *)
(***************************************************************************)
\* the Atom objects whose mImpl is the AtomImpl i
HandlesOf(i) == {h \in DOMAIN handles : handles[h] = i}

\* C25: an AtomImpl is deleted exactly when the last Atom handle referring to
\* it is destroyed - never while a handle refers to it and always once none
\* does - and its reference count equals the number of live handles.
C25_DeletedWithLastHandle ==
    \A i \in DOMAIN impls :
        /\ impls[i].deleted <=> HandlesOf(i) = {}
        /\ ~impls[i].deleted => impls[i].mRefcount = Cardinality(HandlesOf(i))

(***************************************************************************)
(* Properties of Structure::removeAtom                                     *)
(***************************************************************************)
\* C27: removeAtom(a) erases from atom_site exactly the row atom a was loaded
\* from and from the atom list exactly atom a, also after sortAtoms has
\* renumbered the ids; afterwards getAtomById(x.id()) returns x for every
\* remaining atom x.
C27_RemoveAtomFrame ==
    [][Len(structAtoms') < Len(structAtoms) =>
         /\ atomSites' = SelectSeq(atomSites, LAMBDA r : r.row # removeArg'.impl)
         /\ structAtoms' = SelectSeq(structAtoms, LAMBDA x : x.impl # removeArg'.impl)
         /\ \A k \in DOMAIN structAtoms' :
               AtomById(structAtoms', mAtomIndex', structAtoms'[k].id)
                   = [status |-> "ok", atom |-> structAtoms'[k]]]_vars

(***************************************************************************)
(* Properties of Polymer::Distance                                         *)
(***************************************************************************)
\* the position of the monomer with seq id x in the polymer, 0 if there is none
PositionOf(x) ==
    IF \E k \in DOMAIN polymer : polymer[k] = x
    THEN CHOOSE k \in DOMAIN polymer : polymer[k] = x
    ELSE 0

\* C28: Polymer::Distance(a, b) is the absolute difference between the
\* positions of a and b in the polymer when both have the same asym id and
\* both seq ids occur in it, and INT_MAX otherwise.
C28_DistanceIsPositionDifference ==
    ppc = "returned" =>
        distResult = IF /\ monA.asymID = monB.asymID
                        /\ PositionOf(monA.seqID) > 0 /\ PositionOf(monB.seqID) > 0
                     THEN Abs(PositionOf(monA.seqID) - PositionOf(monB.seqID))
                     ELSE INT_MAX

(***************************************************************************)
(* Properties of align_points                                              *)
(***************************************************************************)
\* u and v stand for the same unit quaternion or for opposite ones
SameUpToSign(u, v) == \A i \in 1..4, j \in 1..4 : u[i] * v[j] = u[j] * v[i]

\* C13: for every unit quaternion q and every centred set A of at least
\* three points not on one line, align_points(A, rotate(A, q)) returns q or
\* -q; for q = 1 (align_points(A, A)) it returns a rotation of zero degrees.
C13_AlignRecoversRotation ==
    aresult # <<>> => SameUpToSign(aresult, qrot)

====
